---- MODULE Spec2Model ----
(***************************************************************************)
(* Manual-mode request/response coordinator of the mock OpenAI endpoint    *)
(* (mock_openai_tool/backend/main.py).                                     *)
(*                                                                         *)
(* One asyncio event loop runs every handler.  A handler runs atomically   *)
(* from one await that really suspends to the next one; the awaits that    *)
(* suspend are ws.send_json, ws.receive_json, asyncio.wait_for, and the    *)
(* watcher's sleep.  Queue.put / Queue.get on an unbounded, non-empty      *)
(* asyncio.Queue return without yielding.  Each action below is one such   *)
(* atomic slice.                                                           *)
(***************************************************************************)
EXTENDS Integers, Sequences, FiniteSets, TLC

\* ---- bounds ----
\* Spec explores MaxReq submissions with NCli control connections;
\* SpecPair explores PairReq submissions with PairCli control connections.
MaxReq  == 3
NCli    == 1
PairReq == 2
PairCli == 2
\* SpecFlow explores FlowReq requests from NIp addresses with FlowCli control
\* connections, MaxApi REST calls and at most MaxPreset presets per address.
FlowReq == 2
FlowCli == 1
NIp     == 2
MaxApi  == 2
MaxPreset == 2
\* the clock of the timed specification advances in ticks of TickSeconds
TimeReq == 3
TimeCli == 1
TickSeconds == 100
\* calls of queue manager methods: by concurrent tasks that add and pop,
\* and one after the other with every method
MaxCalls == 5
StoreCalls == 4
\* calls of the bypass config routes, fields one PUT names, clock values
ConfigCalls == 3
MaxFields == 2
MaxNow == 2
\* requests and consoles of the bypass path under configuration updates
BypassReq == 1
BypassCli == 1
BypassCalls == 2
\* direct calls of the config manager's methods
ManagerCalls == 2
\* calls of the batch and import routes, and the length of the array
BatchCalls == 2
MaxBatch == 3

\* ---- program constants ----
DefaultStatus == 200   \* msg.get("status_code", 200)
CancelledStatus == 499
TimeoutStatus == 504
\* asyncio.wait_for(future, timeout=300)
TimeoutSeconds == 300

Reqs    == 1..(IF MaxReq > PairReq THEN MaxReq ELSE PairReq)
Clients == 1..(IF NCli > PairCli THEN NCli ELSE PairCli)
None    == 0           \* Python None for current_request / absent key
Ips     == 1..NIp      \* request.client.host
Apis    == 1..(IF MaxApi > ConfigCalls THEN MaxApi ELSE ConfigCalls)
\* send_response payloads: the response, and status_code absent or present
Payloads == {[response |-> "b1", status_code |-> None],
             [response |-> "b2", status_code |-> 404]}

VARIABLES
    pending_requests,   \* asyncio.Queue of request ids, head first
    current_request,    \* None or the id of the request dict
    request_futures,    \* keys of the dict id -> future
    future,             \* state of each request's future object
    websocket_clients,  \* set of WebSocket objects
    nextId,             \* next fresh uuid
    hpc,                \* position of each handle_completion call
    hit,                \* set iterator of the handler's running broadcast loop
    resp,               \* HTTP response each caller received
    watcher,            \* state of each request's disconnect_task
    wpc,                \* position of each websocket_endpoint call
    wit,                \* set iterator of the endpoint's running broadcast loop
    wloc,               \* locals of the endpoint: req_id and completed_data
    nextWs,             \* next fresh WebSocket object
    alive,              \* whether the peer of each WebSocket is still there
    announceLog,        \* ids dequeued by process_next_request, in order
    sent,               \* the deliveries made by the latest step
    got,                \* id named by the send_response the latest step handled
    enabled,            \* bypass_config_manager._config.enabled
    queues,             \* queue_manager._queues: address -> presets, head first
    client_ip,          \* address of the request the latest step started to handle
    hloc,               \* locals of a handler on the preset or bypass path
    api,                \* position and locals of each REST route call
    nextApi,            \* next REST route call
    elapsed,            \* time a request has spent in wait_for, in ticks
    keys,               \* the addresses that have an entry in _queues
    nextItem,           \* the next preset id (uuid4)
    file,               \* what is stored at queue_manager._persistence_path
    tasks,              \* _persist tasks created and not yet run
    calls,              \* direct calls of queue manager methods
    nextCall,           \* next direct call
    loaded,             \* the fresh manager the latest step made and loaded
    ran,                \* the method the latest step ran
    retval,             \* what the method run by the latest step returned
    popped,             \* ids of the presets check_and_pop has returned
    removed,            \* ids of the presets deleted or cleared
    config,             \* bypass_config_manager._config, but for enabled
    now,                \* the event loop's clock
    reply,              \* the latest answer of GET or PUT /api/bypass/config
    mgr,                \* direct calls of config manager methods: the latest
                        \* one, and the object a caller holds from get_config
    prepared            \* the latest call of _prepare_headers: its arguments
                        \* and the dict it returned

vars == <<pending_requests, current_request, request_futures, future,
          websocket_clients, nextId, hpc, hit, resp, watcher, wpc, wit,
          wloc, nextWs, alive, announceLog, sent, got, enabled, queues,
          client_ip, hloc, api, nextApi, elapsed, keys, nextItem, file,
          tasks, calls, nextCall, loaded, ran, retval,
          popped, removed, config, now, reply, mgr, prepared>>

flowVars == <<enabled, queues, hloc, api, nextApi>>

storeVars == <<keys, nextItem, file, tasks, popped, removed>>
callVars == <<calls, nextCall, loaded, ran, retval>>

configVars == <<config, now, reply, mgr, prepared>>

\* the state the request coordinator does not touch
restVars == <<elapsed, storeVars, callVars, configVars>>

\* ---- values ----
NoFuture  == [st |-> "none", body |-> "", status |-> 0]
Pending   == [st |-> "pending", body |-> "", status |-> 0]
Result(b, s) == [st |-> "result", body |-> b, status |-> s]
Excepted  == [st |-> "exception", body |-> "", status |-> 0]  \* set_exception(CancelledError)
Cancelled == [st |-> "cancelled", body |-> "", status |-> 0]  \* cancelled by wait_for on timeout

NoResp == [status |-> 0, body |-> ""]
NoIter == [n |-> 0, visited |-> {}, start |-> {}]
NoLoc  == [id |-> None, src |-> None]
\* no URL built yet
NoUrl == <<>>
NoLocals == [path |-> "", ip |-> None, result |-> NoResp, failed |-> {},
             success |-> FALSE, target_url |-> NoUrl, posted |-> NoUrl]
NoApi == [pc |-> "idle", it |-> NoIter, failed |-> {}, type |-> "", ip |-> None]

\* {"type": "new_request", "data": current_request}
NewRequest(to, cur) ==
    [to |-> to, type |-> "new_request", id |-> cur, src |-> cur]
\* completed_data (lines 360-370): id, response and status_code of the
\* message (they are the future's result), ip/port/body of current_request
\* as it was when the dict was built.
Completed(to, loc) ==
    [to |-> to, type |-> "completed_request", id |-> loc.id, src |-> loc.src]

InQueue(r) == \E i \in 1..Len(pending_requests) : pending_requests[i] = r

Done(r) == future[r].st \in {"result", "exception", "cancelled"}

\* ---- process_next_request: the guard and the dequeue (lines 319-322) ----
Dequeue_lifo(cur, q) ==
    IF cur # None \/ q = <<>>
    THEN [cur |-> cur, q |-> q, deq |-> FALSE]
    ELSE [cur |-> q[Len(q)], q |-> SubSeq(q, 1, Len(q) - 1), deq |-> TRUE]

Dequeue(cur, q) ==
    IF cur # None \/ q = <<>>
    THEN [cur |-> cur, q |-> q, deq |-> FALSE]
    ELSE [cur |-> Head(q), q |-> Tail(q), deq |-> TRUE]

\* ---- one step of `for ws in websocket_clients: await ws.send_json(..)` ----
\* A set iterator raises RuntimeError when the set's size differs from the
\* size at its creation; otherwise it yields an element not yet visited, in
\* an order the program does not control.  send_json on a WebSocket whose
\* peer is gone raises.
LoopStep(it, cl) ==
    IF Cardinality(cl) # it.n
    THEN {[kind |-> "raise", to |-> None, it |-> NoIter]}
    ELSE IF cl \ it.visited = {}
    THEN {[kind |-> "end", to |-> None, it |-> NoIter]}
    ELSE {IF alive[c]
          THEN [kind |-> "sent", to |-> c,
                it |-> [n |-> it.n, visited |-> it.visited \cup {c},
                        start |-> it.start]]
          ELSE [kind |-> "raise", to |-> c, it |-> NoIter]
          : c \in cl \ it.visited}

\* `start` remembers which consumers were in the set when the loop began
NewIter(cl) == [n |-> Cardinality(cl), visited |-> {}, start |-> cl]

\* process_next_request run from the state (cur, q) up to its first
\* suspension: the results it can produce.
ProcessNext(cur, q) ==
    LET d == Dequeue(cur, q) IN
    IF ~d.deq
    THEN {[cur |-> d.cur, q |-> d.q, deq |-> FALSE, kind |-> "end",
           to |-> None, it |-> NoIter]}
    ELSE {[cur |-> d.cur, q |-> d.q, deq |-> TRUE, kind |-> o.kind,
           to |-> o.to, it |-> o.it]
          : o \in LoopStep(NewIter(websocket_clients), websocket_clients)}

Log(p) == IF p.deq THEN Append(announceLog, p.cur) ELSE announceLog
Sent(p) == IF p.kind = "sent" THEN <<NewRequest(p.to, p.cur)>> ELSE <<>>

\* ---- PresetQueueManager (queue_manager.py): values ----
Calls == 1..MaxCalls
Ops == {"add_response", "check_and_pop", "delete_response", "clear_queue",
        "delete_queue", "clear_all_queues"}
NoPreset == [response |-> "", status_code |-> 0]

\* what a method returns: None, the new id, (response, status_code), a bool
NoneRet == [v |-> "None", id |-> 0, response |-> "", status_code |-> 0]
IdRet(i) == [v |-> "id", id |-> i, response |-> "", status_code |-> 0]
TupleRet(item) == [v |-> "tuple", id |-> 0, response |-> item.response,
                   status_code |-> item.status_code]
BoolRet(b) == [v |-> IF b THEN "True" ELSE "False", id |-> 0,
               response |-> "", status_code |-> 0]

NoCall == [pc |-> "idle", op |-> "", ip |-> None, item |-> NoPreset,
           id |-> None]
Returned == [pc |-> "returned", op |-> "", ip |-> None, item |-> NoPreset,
             id |-> None]

EmptyQueues == [ip \in 1..NIp |-> <<>>]

\* the file at a path: absent, not JSON, or JSON text
MissingFile == [st |-> "missing", data |-> <<>>]
CorruptedFile == [st |-> "corrupted", data |-> <<>>]
Paths == {"preset_queues.json", "missing.json", "corrupted.json"}
NoLoaded == [path |-> "", keys |-> {}, queues |-> EmptyQueues]

\* ---- BypassConfig (bypass_config.py lines 15-25): values ----
\* A host or a uri is a sequence of characters: "h" and "x" stand for the
\* characters of the class [\w.-], " " for any other character but the
\* newline.
WordChars == {"h", "x"}
DefaultHost == <<"h">>
Hosts == {<<>>, <<"h">>, <<"x">>, <<" ">>, <<"h", " ">>, <<"h", "\n">>}
DefaultPort == 443
Ports == {0, 1, 80, 443, 65535, 65536}
DefaultUri == <<"/", "h">>
Uris == {<<"/", "h">>, <<"h">>, <<>>}
DefaultTimeout == 60
Timeouts == {0, 1, 60, 300, 301}
\* api_key: None or a string
NoKey == "<None>"
ApiKeys == {"", "sk-1", "sk-2"}

DefaultConfig ==
    [target_host |-> DefaultHost, target_port |-> DefaultPort,
     target_uri |-> DefaultUri, api_key |-> NoKey, use_https |-> FALSE,
     timeout |-> DefaultTimeout, updated_at |-> 0]

NoReply == [status |-> 0, body |-> <<>>]

\* ---- BypassHandler._prepare_headers (bypass_handler.py): values ----
\* at most MaxHeaders headers in the caller's dict
MaxHeaders == 2

\* HOP_BY_HOP_HEADERS, lines 17-28
HOP_BY_HOP_HEADERS ==
    {"connection", "keep-alive", "proxy-authenticate", "proxy-authorization",
     "te", "trailers", "transfer-encoding", "upgrade", "host",
     "content-length"}

\* A header name is a key of the dict: two spellings of one name that
\* differ in letter case are two keys.  `lower` is key.lower().
HeaderNames == {"authorization", "connection", "content-type", "x-trace"}
Spellings == {"lower", "Title", "UPPER"}
HeaderKeys == [lower : HeaderNames, case : Spellings]

\* the keys the function writes: 'Authorization' and 'Content-Type'
AuthorizationKey == [lower |-> "authorization", case |-> "Title"]
ContentTypeKey == [lower |-> "content-type", case |-> "Title"]

\* the dicts a caller passes, each header with the caller's value
CallerValue == "caller"
OriginalHeaders ==
    UNION {[D -> {CallerValue}] :
             D \in {E \in SUBSET HeaderKeys : Cardinality(E) <= MaxHeaders}}

\* f'Bearer {config.api_key}'
Bearer(api_key) == <<"Bearer", api_key>>

NotPrepared ==
    [called |-> FALSE, original |-> <<>>, api_key |-> NoKey,
     headers |-> <<>>]

\* ---- BypassConfigManager called directly: values ----
\* the fields of BypassConfig a caller can name, but for enabled
Fields ==
    {"target_host", "target_port", "target_uri", "api_key", "use_https",
     "timeout"}

\* update_config() with no keyword
NoKwargs ==
    [target_host |-> [named |-> FALSE, v |-> DefaultHost],
     target_port |-> [named |-> FALSE, v |-> DefaultPort],
     target_uri |-> [named |-> FALSE, v |-> DefaultUri],
     api_key |-> [named |-> FALSE, v |-> NoKey],
     use_https |-> [named |-> FALSE, v |-> FALSE],
     timeout |-> [named |-> FALSE, v |-> DefaultTimeout]]

\* a caller holds no BypassConfig object yet
NoObject == [st |-> "none", config |-> DefaultConfig, enabled |-> FALSE]

NoManagerCall ==
    [n |-> 0, ran |-> "", kw |-> NoKwargs, raised |-> FALSE, ret |-> FALSE,
     obj |-> NoObject]

\* what the test assigns to a field of the object it was given
ModifiedHost == <<"x", "x">>

TypeOK ==
    /\ current_request \in Reqs \cup {None}
    /\ request_futures \subseteq Reqs
    /\ websocket_clients \subseteq Clients
    /\ nextId \in Reqs \cup {Cardinality(Reqs) + 1}
    /\ \A r \in Reqs : hpc[r] \in {"idle", "announce", "wait", "cleanup", "done",
                                   "queue_updated", "preset_completed",
                                   "bypass_request", "forward",
                                   "bypass_response"}
    /\ enabled \in BOOLEAN
    /\ \A ip \in Ips : Len(queues[ip]) <= MaxPreset + MaxCalls
    /\ \A ip \in Ips : ip \notin keys => queues[ip] = <<>>
    /\ keys \subseteq Ips
    /\ tasks \in Nat
    /\ file.st \in {"missing", "corrupted", "json"}
    /\ now \in 0..MaxNow
    /\ config.updated_at \in 0..MaxNow
    /\ config.api_key \in ApiKeys \cup {NoKey}
    /\ \A k \in Apis : api[k].pc \in {"idle", "bcast", "done", "failed"}
    /\ \A c \in Clients : wpc[c] \in {"idle", "recv", "completed", "announce", "closed", "crashed"}

Init ==
    /\ pending_requests = <<>>
    /\ current_request = None
    /\ request_futures = {}
    /\ future = [r \in Reqs |-> NoFuture]
    /\ websocket_clients = {}
    /\ nextId = 1
    /\ hpc = [r \in Reqs |-> "idle"]
    /\ hit = [r \in Reqs |-> NoIter]
    /\ resp = [r \in Reqs |-> NoResp]
    /\ watcher = [r \in Reqs |-> "none"]
    /\ wpc = [c \in Clients |-> "idle"]
    /\ wit = [c \in Clients |-> NoIter]
    /\ wloc = [c \in Clients |-> NoLoc]
    /\ nextWs = 1
    /\ alive = [c \in Clients |-> FALSE]
    /\ announceLog = <<>>
    /\ sent = <<>>
    /\ got = None
    /\ enabled = FALSE
    /\ queues = [ip \in Ips |-> <<>>]
    /\ client_ip = None
    /\ hloc = [r \in Reqs |-> NoLocals]
    /\ api = [k \in Apis |-> NoApi]
    /\ nextApi = 1
    /\ elapsed = [r \in Reqs |-> 0]
    /\ keys = {}
    /\ nextItem = 1
    /\ file = MissingFile
    /\ tasks = 0
    /\ calls = [k \in Calls |-> NoCall]
    /\ nextCall = 1
    /\ loaded = NoLoaded
    /\ ran = ""
    /\ retval = NoneRet
    /\ popped = {}
    /\ removed = {}
    /\ config = DefaultConfig
    /\ now = 0
    /\ reply = NoReply
    /\ mgr = NoManagerCall
    /\ prepared = NotPrepared

\* ---- guards on the future (request_futures.get(id) and not done()) ----
WatcherGuard_nodone(r) == r \in request_futures

WatcherGuard(r) == r \in request_futures /\ future[r].st = "pending"

FutureLive_nodone(r) == r \in request_futures /\ future[r].st # "result"

FutureLive(r) == r \in request_futures /\ future[r].st = "pending"

\* ---- what the caller gets from `await asyncio.wait_for(future, 300)` ----
OutcomeOf(f) ==
    IF f.st = "result" THEN [status |-> f.status, body |-> f.body]
    ELSE IF f.st = "exception"
    THEN [status |-> CancelledStatus, body |-> "Request cancelled - client disconnected"]
    ELSE [status |-> TimeoutStatus, body |-> "Timeout waiting for mock response"]

\* an exception that leaves the endpoint: the framework answers 500
ServerError == [status |-> 500, body |-> "Internal Server Error"]

\* ---- preset and bypass paths: values ----
BadGatewayStatus == 502
\* presets an operator can add: AddResponseRequest(response, status_code)
Presets == {[response |-> "p1", status_code |-> DefaultStatus],
            [response |-> "p2", status_code |-> 404]}
\* what the upstream call of forward_request can do: answer with a JSON
\* body, answer with a body that is not JSON, or raise
Upstream == {[kind |-> "json", status |-> DefaultStatus, body |-> "u1"],
             [kind |-> "text", status |-> 503, body |-> "u2"],
             [kind |-> "TimeoutException", status |-> 0, body |-> ""],
             [kind |-> "ConnectError", status |-> 0, body |-> ""],
             [kind |-> "HTTPError", status |-> 0, body |-> ""],
             [kind |-> "Exception", status |-> 0, body |-> ""]}

\* BypassHandler.forward_request, lines 81-142: the answer is returned with
\* the upstream's status, a body that is not JSON wrapped in the error
\* format; every exception of the call is raised as BypassError with a
\* message of its own.
forward_request(up) ==
    CASE up.kind = "json" ->
           [raised |-> FALSE, status |-> up.status, body |-> up.body]
      [] up.kind = "text" ->
           [raised |-> FALSE, status |-> up.status, body |-> "api_error"]
      [] up.kind = "TimeoutException" ->
           [raised |-> TRUE, status |-> 0, body |-> "Request timeout"]
      [] up.kind = "ConnectError" ->
           [raised |-> TRUE, status |-> 0, body |-> "Failed to connect"]
      [] up.kind = "HTTPError" ->
           [raised |-> TRUE, status |-> 0, body |-> "HTTP error"]
      [] OTHER ->
           [raised |-> TRUE, status |-> 0, body |-> "Unexpected error"]

\* handle_bypass_request, lines 186-225: what the caller is answered and
\* what the bypass_response event says, for a call that returned and for
\* one that raised BypassError.
BypassOutcome(fr) ==
    IF fr.raised
    THEN [status |-> BadGatewayStatus, body |-> fr.body, success |-> FALSE]
    ELSE [status |-> fr.status, body |-> fr.body, success |-> TRUE]

\* the "data" of a bypass_response event (lines 195-202, 211-219)
ResponseData(res, success) ==
    [status_code |-> res.status, response_body |-> res.body,
     success |-> success]
OkResp == [status |-> DefaultStatus, body |-> "success"]


Event(to, type, id, src) == [to |-> to, type |-> type, id |-> id, src |-> src]

\* handle_completion lines 235-241: bypass first, then the caller's preset
\* queue, then manual mode.
Strategy_presetfirst(ip) ==
    IF queues[ip] # <<>> THEN "preset"
    ELSE IF enabled THEN "bypass" ELSE "manual"

Strategy(ip) ==
    IF enabled THEN "bypass"
    ELSE IF queues[ip] # <<>> THEN "preset" ELSE "manual"

\* ---- one step of a loop whose body is try: await ws.send_json(..)
\* except Exception (broadcast_websocket lines 93-98, handle_completion
\* lines 260-264).  The failed send is caught and the consumer remembered;
\* the iterator's RuntimeError is raised by the for statement, outside the
\* try.
BroadcastStep(it, failed, cl) ==
    {IF o.kind = "raise" /\ o.to # None
     THEN [kind |-> "caught", to |-> o.to,
           it |-> [n |-> it.n, visited |-> it.visited \cup {o.to},
                   start |-> it.start],
           failed |-> failed \cup {o.to}]
     ELSE [kind |-> o.kind, to |-> o.to, it |-> o.it, failed |-> failed]
     : o \in LoopStep(it, cl)}

\* where a handler is after running up to its next suspension
HOut(pc, it, failed, cl, snt, rsp) ==
    [pc |-> pc, it |-> it, failed |-> failed, cl |-> cl, sent |-> snt,
     resp |-> rsp]

\* A handler in such a loop, run to its next suspension.  When the loop
\* ends, broadcast_websocket removes the failed consumers (line 101) and
\* the handler goes on from "end" in the same step.
BroadcastRun(pc, type, id, src, it, failed, cl, prune) ==
    {CASE o.kind = "sent" ->
            HOut(pc, o.it, IF prune THEN o.failed ELSE {}, cl,
                 <<Event(o.to, type, id, src)>>, NoResp)
       [] o.kind = "caught" ->
            HOut(pc, o.it, IF prune THEN o.failed ELSE {}, cl, <<>>, NoResp)
       [] o.kind = "raise" ->
            HOut("done", NoIter, {}, cl, <<>>, ServerError)
       [] OTHER ->
            HOut("end", NoIter, {}, IF prune THEN cl \ o.failed ELSE cl,
                 <<>>, NoResp)
     : o \in BroadcastStep(it, failed, cl)}

\* ======================= PresetQueueManager ============================
\* what a method leaves behind: the dict's keys, the queues, the value
\* returned, and whether _persist_async was called
QOut(ks, qs, ret, persist) ==
    [keys |-> ks, queues |-> qs, ret |-> ret, persist |-> persist]

\* lines 43-57
add_response(ks, qs, ip, preset, id) ==
    QOut(ks \cup {ip},
         [qs EXCEPT ![ip] = Append(@, [id |-> id,
                                       response |-> preset.response,
                                       status_code |-> preset.status_code])],
         IdRet(id), TRUE)

\* lines 69-75 with [0] in place of popleft()
check_and_pop_peek(ks, qs, ip) ==
    IF ip \notin ks \/ qs[ip] = <<>>
    THEN QOut(ks, qs, NoneRet, FALSE)
    ELSE QOut(ks, qs, TupleRet(Head(qs[ip])), TRUE)

\* lines 69-75 with pop() in place of popleft()
check_and_pop_last(ks, qs, ip) ==
    IF ip \notin ks \/ qs[ip] = <<>>
    THEN QOut(ks, qs, NoneRet, FALSE)
    ELSE QOut(ks, [qs EXCEPT ![ip] = SubSeq(@, 1, Len(@) - 1)],
              TupleRet(qs[ip][Len(qs[ip])]), TRUE)

\* lines 69-75
check_and_pop(ks, qs, ip) ==
    IF ip \notin ks \/ qs[ip] = <<>>
    THEN QOut(ks, qs, NoneRet, FALSE)
    ELSE QOut(ks, [qs EXCEPT ![ip] = Tail(@)], TupleRet(Head(qs[ip])), TRUE)

\* lines 91-104 with the id test dropped
delete_response_head(ks, qs, ip, id) ==
    IF ip \notin ks \/ qs[ip] = <<>>
    THEN QOut(ks, qs, BoolRet(FALSE), FALSE)
    ELSE QOut(ks, [qs EXCEPT ![ip] = Tail(@)], BoolRet(TRUE), TRUE)

\* lines 91-104
delete_response(ks, qs, ip, id) ==
    IF ip \notin ks
    THEN QOut(ks, qs, BoolRet(FALSE), FALSE)
    ELSE LET Kept(item) == item.id # id
             kept == SelectSeq(qs[ip], Kept)
         IN IF Len(kept) < Len(qs[ip])
            THEN QOut(ks, [qs EXCEPT ![ip] = kept], BoolRet(TRUE), TRUE)
            ELSE QOut(ks, [qs EXCEPT ![ip] = kept], BoolRet(FALSE), FALSE)

\* lines 108-113
clear_queue(ks, qs, ip) ==
    IF ip \in ks
    THEN QOut(ks, [qs EXCEPT ![ip] = <<>>], BoolRet(TRUE), TRUE)
    ELSE QOut(ks, qs, BoolRet(FALSE), FALSE)

\* lines 117-122
delete_queue(ks, qs, ip) ==
    IF ip \in ks
    THEN QOut(ks \ {ip}, [qs EXCEPT ![ip] = <<>>], BoolRet(TRUE), TRUE)
    ELSE QOut(ks, qs, BoolRet(FALSE), FALSE)

\* lines 126-128
clear_all_queues(ks, qs) == QOut({}, EmptyQueues, NoneRet, TRUE)

\* json.dump of {ip: list(queue)} (lines 142-147): one entry per key of
\* the dict, each item an object written field by field
DumpItem(item) == <<item.id, item.response, item.status_code>>

Dump_nonempty(ks, qs) ==
    [ip \in {i \in ks : qs[i] # <<>>} |->
        [i \in 1..Len(qs[ip]) |-> DumpItem(qs[ip][i])]]

Dump(ks, qs) ==
    [ip \in ks |-> [i \in 1..Len(qs[ip]) |-> DumpItem(qs[ip][i])]]

\* json.load and {ip: deque(queue)} (lines 156-160)
LoadItem(t) == [id |-> t[1], response |-> t[2], status_code |-> t[3]]

\* load (lines 153-163) on a manager whose dict is (ks, qs): a file that
\* is absent or that json.load rejects leaves the dict as it is
load(ks, qs, f) ==
    IF f.st = "json"
    THEN [keys |-> DOMAIN f.data,
          queues |-> [ip \in 1..NIp |->
                        IF ip \in DOMAIN f.data
                        THEN [i \in 1..Len(f.data[ip]) |->
                                 LoadItem(f.data[ip][i])]
                        ELSE <<>>]]
    ELSE [keys |-> ks, queues |-> qs]

FileAt(path) ==
    CASE path = "preset_queues.json" -> file
      [] path = "missing.json" -> MissingFile
      [] OTHER -> CorruptedFile

\* what the queue manager's steps leave alone
StoreFrame ==
    /\ sent' = <<>>
    /\ got' = None
    /\ client_ip' = None
    /\ UNCHANGED <<pending_requests, current_request, request_futures, future,
                   websocket_clients, nextId, hpc, hit, resp, watcher, wpc,
                   wit, wloc, nextWs, alive, announceLog, enabled, hloc, api,
                   nextApi, elapsed, configVars>>

\* the ids of the presets in the queues
Ids(qs) == UNION {{qs[ip][i].id : i \in 1..Len(qs[ip])} : ip \in 1..NIp}

\* A caller creates a task that calls a method of the manager
\* (asyncio.gather in the callers).
Call(k, op, ip, preset, id) ==
    /\ k = nextCall
    /\ calls[k].pc = "idle"
    /\ (op = "add_response") = (preset # NoPreset)
    /\ (op = "delete_response") = (id # None)
    /\ (op = "clear_all_queues") = (ip = None)
    /\ nextCall' = nextCall + 1
    /\ calls' = [calls EXCEPT ![k] = [pc |-> "created", op |-> op, ip |-> ip,
                                      item |-> preset, id |-> id]]
    /\ loaded' = NoLoaded
    /\ ran' = ""
    /\ retval' = NoneRet
    /\ UNCHANGED <<storeVars, queues>>
    /\ StoreFrame

MethodOut(c) ==
    CASE c.op = "add_response" ->
           add_response(keys, queues, c.ip, c.item, nextItem)
      [] c.op = "check_and_pop" -> check_and_pop(keys, queues, c.ip)
      [] c.op = "delete_response" ->
           delete_response(keys, queues, c.ip, c.id)
      [] c.op = "clear_queue" -> clear_queue(keys, queues, c.ip)
      [] c.op = "delete_queue" -> delete_queue(keys, queues, c.ip)
      [] OTHER -> clear_all_queues(keys, queues)

\* The task runs: the lock is free, because no method suspends while it
\* holds it, and the body runs to its return.
Run(k) ==
    /\ calls[k].pc = "created"
    /\ LET out == MethodOut(calls[k])
       IN /\ keys' = out.keys
          /\ queues' = out.queues
          /\ tasks' = IF out.persist THEN tasks + 1 ELSE tasks
          /\ ran' = calls[k].op
          /\ retval' = out.ret
          /\ LET gone == Ids(queues) \ Ids(out.queues)
             IN IF calls[k].op = "check_and_pop"
                THEN popped' = popped \cup gone /\ UNCHANGED removed
                ELSE removed' = removed \cup gone /\ UNCHANGED popped
    /\ calls' = [calls EXCEPT ![k] = Returned]
    /\ nextItem' = IF calls[k].op = "add_response"
                   THEN nextItem + 1 ELSE nextItem
    /\ loaded' = NoLoaded
    /\ UNCHANGED <<file, nextCall>>
    /\ StoreFrame

\* The oldest _persist task runs (lines 139-149): it writes the dict as it
\* is now.
Persist ==
    /\ tasks > 0
    /\ tasks' = tasks - 1
    /\ file' = [st |-> "json", data |-> Dump(keys, queues)]
    /\ loaded' = NoLoaded
    /\ ran' = ""
    /\ retval' = NoneRet
    /\ UNCHANGED <<keys, nextItem, queues, calls, nextCall, popped, removed>>
    /\ StoreFrame

\* A fresh manager is made for a path and loads (lines 26-29, 151-163).
LoadFresh(path) ==
    /\ LET m == load({}, EmptyQueues, FileAt(path))
       IN loaded' = [path |-> path, keys |-> m.keys, queues |-> m.queues]
    /\ ran' = ""
    /\ retval' = NoneRet
    /\ UNCHANGED <<storeVars, queues, calls, nextCall>>
    /\ StoreFrame

\* ======================= handle_completion =============================
\* Lines 229-293, manual mode: create the future, enqueue, run
\* process_next_request, then start the watcher and wait.
Submit(r) ==
    /\ r = nextId
    /\ hpc[r] = "idle"
    /\ \E ip \in Ips : Strategy(ip) = "manual" /\ client_ip' = ip
    /\ nextId' = nextId + 1
    /\ request_futures' = request_futures \cup {r}
    /\ future' = [future EXCEPT ![r] = Pending]
    /\ \E p \in ProcessNext(current_request, Append(pending_requests, r)) :
         /\ current_request' = p.cur
         /\ pending_requests' = p.q
         /\ announceLog' = Log(p)
         /\ sent' = Sent(p)
         /\ hit' = [hit EXCEPT ![r] = p.it]
         /\ hpc' = [hpc EXCEPT ![r] = CASE p.kind = "sent" -> "announce"
                                        [] p.kind = "end" -> "wait"
                                        [] OTHER -> "done"]
         /\ watcher' = [watcher EXCEPT ![r] =
                           IF p.kind = "end" THEN "running" ELSE "none"]
         /\ resp' = [resp EXCEPT ![r] =
                           IF p.kind = "raise" THEN ServerError ELSE NoResp]
    /\ got' = None
    /\ UNCHANGED restVars
    /\ UNCHANGED flowVars
    /\ UNCHANGED <<websocket_clients, wpc, wit, wloc, nextWs, alive>>

\* The handler resumes inside process_next_request's loop (line 325-329),
\* called from line 286.  The event carries current_request as it is now.
AnnounceStep(r) ==
    /\ hpc[r] = "announce"
    /\ \E o \in LoopStep(hit[r], websocket_clients) :
         /\ hit' = [hit EXCEPT ![r] = o.it]
         /\ sent' = IF o.kind = "sent"
                    THEN <<NewRequest(o.to, current_request)>> ELSE <<>>
         /\ hpc' = [hpc EXCEPT ![r] = CASE o.kind = "sent" -> "announce"
                                        [] o.kind = "end" -> "wait"
                                        [] OTHER -> "done"]
         /\ watcher' = [watcher EXCEPT ![r] =
                           IF o.kind = "end" THEN "running" ELSE "none"]
         /\ resp' = [resp EXCEPT ![r] =
                           IF o.kind = "raise" THEN ServerError ELSE NoResp]
    /\ got' = None
    /\ UNCHANGED restVars
    /\ client_ip' = None
    /\ UNCHANGED flowVars
    /\ UNCHANGED <<pending_requests, current_request, request_futures, future,
                   websocket_clients, nextId, nextWs, wpc, wit, wloc, alive,
                   announceLog>>

\* asyncio.wait_for's timer fires while the future is pending: the future
\* is cancelled and the handler is scheduled with TimeoutError (line 293).
Timeout(r) ==
    /\ hpc[r] = "wait"
    /\ future[r].st = "pending"
    /\ future' = [future EXCEPT ![r] = Cancelled]
    /\ sent' = <<>>
    /\ got' = None
    /\ UNCHANGED restVars
    /\ client_ip' = None
    /\ UNCHANGED flowVars
    /\ UNCHANGED <<pending_requests, current_request, request_futures,
                   websocket_clients, nextId, nextWs, hpc, hit, resp, watcher, wpc,
                   wit, wloc, alive, announceLog>>

\* wait_for's timer is due once timeout seconds have passed since the call
\* (line 293).
TimerDue(r) == elapsed[r] * TickSeconds >= TimeoutSeconds

Waiting(r) == hpc[r] = "wait" /\ future[r].st = "pending"

\* The timer of request r's wait_for fires, after its delay.
Expire(r) == TimerDue(r) /\ Timeout(r)

\* Time passes for every handler suspended in wait_for; the event loop
\* runs a due timer before the clock reaches the next tick.
Tick ==
    /\ \E r \in Reqs : Waiting(r)
    /\ \A r \in Reqs : Waiting(r) => ~TimerDue(r)
    /\ elapsed' = [r \in Reqs |->
                      IF Waiting(r) THEN elapsed[r] + 1 ELSE elapsed[r]]
    /\ sent' = <<>>
    /\ got' = None
    /\ client_ip' = None
    /\ UNCHANGED flowVars
    /\ UNCHANGED <<storeVars, callVars, configVars>>
    /\ UNCHANGED <<pending_requests, current_request, request_futures, future,
                   websocket_clients, nextId, nextWs, hpc, hit, resp, watcher,
                   wpc, wit, wloc, alive, announceLog>>

\* _check_client_disconnect sees request.is_disconnected() (lines 130-136).
Disconnected(r) ==
    /\ watcher[r] = "running"
    /\ future' = IF WatcherGuard(r)
                 THEN [future EXCEPT ![r] = Excepted] ELSE future
    /\ watcher' = [watcher EXCEPT ![r] = "finished"]
    /\ sent' = <<>>
    /\ got' = None
    /\ UNCHANGED restVars
    /\ client_ip' = None
    /\ UNCHANGED flowVars
    /\ UNCHANGED <<pending_requests, current_request, request_futures,
                   websocket_clients, nextId, nextWs, hpc, hit, resp, wpc, wit, wloc,
                   alive, announceLog>>

\* _cleanup_current_request's test (line 147)
CleanupGuard_any(r) == current_request # None

CleanupGuard(r) == current_request = r

\* lines 295-301 without the cancel: the watcher keeps running
CancelWatcher_left(r) == watcher

\* lines 295-301: disconnect_task.cancel() and `await disconnect_task`.
\* CancelledError is thrown into the watcher at the await it is suspended
\* in (lines 129-130) and caught at line 137; on a watcher that has
\* already returned the cancel does nothing.  Either way the task is over.
CancelWatcher(r) == [watcher EXCEPT ![r] = "stopped"]

\* The wait ends (lines 293-314): the watcher is cancelled, the response is
\* chosen, the future is popped and _cleanup_current_request runs.
HandlerWake(r) ==
    /\ hpc[r] = "wait"
    /\ Done(r)
    /\ watcher' = CancelWatcher(r)
    /\ request_futures' = request_futures \ {r}
    /\ IF CleanupGuard(r)
       THEN \E p \in ProcessNext(None, pending_requests) :
              /\ current_request' = p.cur
              /\ pending_requests' = p.q
              /\ announceLog' = Log(p)
              /\ sent' = Sent(p)
              /\ hit' = [hit EXCEPT ![r] = p.it]
              /\ hpc' = [hpc EXCEPT ![r] =
                            IF p.kind = "sent" THEN "cleanup" ELSE "done"]
              /\ resp' = [resp EXCEPT ![r] =
                            IF p.kind = "raise" THEN ServerError
                            ELSE OutcomeOf(future[r])]
       ELSE /\ hpc' = [hpc EXCEPT ![r] = "done"]
            /\ resp' = [resp EXCEPT ![r] = OutcomeOf(future[r])]
            /\ sent' = <<>>
            /\ UNCHANGED <<current_request, pending_requests, announceLog, hit>>
    /\ got' = None
    /\ UNCHANGED restVars
    /\ client_ip' = None
    /\ UNCHANGED flowVars
    /\ UNCHANGED <<future, websocket_clients, nextId, nextWs, wpc, wit, wloc, alive>>

\* The handler resumes inside process_next_request's loop, called from
\* _cleanup_current_request (line 151) in the finally block.
CleanupStep(r) ==
    /\ hpc[r] = "cleanup"
    /\ \E o \in LoopStep(hit[r], websocket_clients) :
         /\ hit' = [hit EXCEPT ![r] = o.it]
         /\ sent' = IF o.kind = "sent"
                    THEN <<NewRequest(o.to, current_request)>> ELSE <<>>
         /\ hpc' = [hpc EXCEPT ![r] =
                       IF o.kind = "sent" THEN "cleanup" ELSE "done"]
         /\ resp' = [resp EXCEPT ![r] =
                       IF o.kind = "raise" THEN ServerError ELSE resp[r]]
    /\ got' = None
    /\ UNCHANGED restVars
    /\ client_ip' = None
    /\ UNCHANGED flowVars
    /\ UNCHANGED <<pending_requests, current_request, request_futures, future,
                   websocket_clients, nextId, nextWs, watcher, wpc, wit, wloc, alive,
                   announceLog>>

\* ======================= websocket_endpoint ============================
\* lines 339-343: `if current_request: await ws.send_json(new_request)`
Replay(c, cur) == IF cur # None THEN <<NewRequest(c, cur)>> ELSE <<>>

\* Lines 336-343: accept, add to the set, replay the current request.
Connect(c) ==
    /\ c = nextWs
    /\ wpc[c] = "idle"
    /\ nextWs' = nextWs + 1
    /\ websocket_clients' = websocket_clients \cup {c}
    /\ alive' = [alive EXCEPT ![c] = TRUE]
    /\ wpc' = [wpc EXCEPT ![c] = "recv"]
    /\ sent' = Replay(c, current_request)
    /\ got' = None
    /\ UNCHANGED restVars
    /\ client_ip' = None
    /\ UNCHANGED flowVars
    /\ UNCHANGED <<pending_requests, current_request, request_futures, future,
                   nextId, hpc, hit, resp, watcher, wit, wloc, announceLog>>

\* The operator console goes away.
Drop(c) ==
    /\ wpc[c] \in {"recv", "completed", "announce"}
    /\ alive[c]
    /\ alive' = [alive EXCEPT ![c] = FALSE]
    /\ sent' = <<>>
    /\ got' = None
    /\ UNCHANGED restVars
    /\ client_ip' = None
    /\ UNCHANGED flowVars
    /\ UNCHANGED <<pending_requests, current_request, request_futures, future,
                   websocket_clients, nextId, nextWs, hpc, hit, resp, watcher, wpc,
                   wit, wloc, announceLog>>

\* receive_json raises WebSocketDisconnect (lines 378-379).
RecvDisconnect(c) ==
    /\ wpc[c] = "recv"
    /\ ~alive[c]
    /\ websocket_clients' = websocket_clients \ {c}
    /\ wpc' = [wpc EXCEPT ![c] = "closed"]
    /\ sent' = <<>>
    /\ got' = None
    /\ UNCHANGED restVars
    /\ client_ip' = None
    /\ UNCHANGED flowVars
    /\ UNCHANGED <<pending_requests, current_request, request_futures, future,
                   nextId, nextWs, hpc, hit, resp, watcher, wit, wloc, alive,
                   announceLog>>

\* An exception leaves the endpoint.  A send failure surfaces as
\* WebSocketDisconnect in some Starlette versions and is then caught by
\* line 378, which removes this endpoint's own ws; any other exception
\* leaves ws in websocket_clients.  The server closes the connection.
WsFail(c, caught) ==
    /\ wpc' = [wpc EXCEPT ![c] = IF caught THEN "closed" ELSE "crashed"]
    /\ websocket_clients' = IF caught THEN websocket_clients \ {c}
                            ELSE websocket_clients
    /\ alive' = [alive EXCEPT ![c] = FALSE]
    /\ wit' = [wit EXCEPT ![c] = NoIter]
    /\ wloc' = [wloc EXCEPT ![c] = NoLoc]

CatchChoices(o) == IF o.to # None THEN BOOLEAN ELSE {FALSE}

\* Lines 347-373: a send_response message arrives.
StatusOf(msg) ==
    IF msg.status_code = None THEN DefaultStatus ELSE msg.status_code

SendResponse(c, id, msg) ==
    /\ wpc[c] = "recv"
    /\ alive[c]
    /\ IF FutureLive(id)
       THEN /\ future' = [future EXCEPT ![id] =
                             Result(msg.response, StatusOf(msg))]
            /\ IF current_request = None
               THEN \* current_request["ip"] raises TypeError
                    /\ WsFail(c, FALSE)
                    /\ sent' = <<>>
               ELSE LET loc == [id |-> id, src |-> current_request]
                    IN \E o \in LoopStep(NewIter(websocket_clients), websocket_clients) :
                         IF o.kind = "sent"
                         THEN /\ wpc' = [wpc EXCEPT ![c] = "completed"]
                              /\ wit' = [wit EXCEPT ![c] = o.it]
                              /\ wloc' = [wloc EXCEPT ![c] = loc]
                              /\ sent' = <<Completed(o.to, loc)>>
                              /\ UNCHANGED <<websocket_clients, alive>>
                         ELSE /\ \E caught \in CatchChoices(o) : WsFail(c, caught)
                              /\ sent' = <<>>
       ELSE /\ sent' = <<>>
            /\ UNCHANGED <<future, wpc, wit, wloc, websocket_clients, alive>>
    /\ got' = id
    /\ UNCHANGED restVars
    /\ client_ip' = None
    /\ UNCHANGED flowVars
    /\ UNCHANGED <<pending_requests, current_request, request_futures, nextId, nextWs,
                   hpc, hit, resp, watcher, announceLog>>

\* Shapes of an operator message other than a well-formed send_response:
\* which of the keys "type", "id" and "response" it carries.
OperatorMsgs ==
    { m \in [type : {"", "send_response", "ping"}, id : BOOLEAN,
             response : BOOLEAN] :
        ~(m.type = "send_response" /\ m.id /\ m.response) }

\* msg["type"] (line 348), msg["id"] (line 350) and msg["response"]
\* (line 352) raise KeyError when the key is absent.
KeyError(m) ==
    \/ m.type = ""
    \/ m.type = "send_response" /\ (~m.id \/ ~m.response)

\* Lines 346-352 and 378-379: a message that is not a well-formed
\* send_response arrives.  KeyError is not WebSocketDisconnect, so it
\* leaves the endpoint; a message of another type fails the test of
\* line 348 and the loop receives again.
MalformedMessage(c, m) ==
    /\ wpc[c] = "recv"
    /\ alive[c]
    /\ IF KeyError(m)
       THEN WsFail(c, FALSE)
       ELSE UNCHANGED <<wpc, websocket_clients, alive, wit, wloc>>
    /\ sent' = <<>>
    /\ got' = None
    /\ UNCHANGED restVars
    /\ client_ip' = None
    /\ UNCHANGED flowVars
    /\ UNCHANGED <<pending_requests, current_request, request_futures, future,
                   nextId, nextWs, hpc, hit, resp, watcher, announceLog>>

\* The endpoint resumes inside the completed_request loop (lines 372-373);
\* when the loop ends it clears current_request and runs
\* process_next_request (lines 375-376).
CompletedStep(c) ==
    /\ wpc[c] = "completed"
    /\ \E o \in LoopStep(wit[c], websocket_clients) :
         CASE o.kind = "sent" ->
                /\ wit' = [wit EXCEPT ![c] = o.it]
                /\ sent' = <<Completed(o.to, wloc[c])>>
                /\ UNCHANGED <<pending_requests, current_request, announceLog,
                               wpc, wloc, websocket_clients, alive>>
           [] o.kind = "raise" ->
                /\ \E caught \in CatchChoices(o) : WsFail(c, caught)
                /\ sent' = <<>>
                /\ UNCHANGED <<pending_requests, current_request, announceLog>>
           [] OTHER ->
                \E p \in ProcessNext(None, pending_requests) :
                   /\ current_request' = p.cur
                   /\ pending_requests' = p.q
                   /\ announceLog' = Log(p)
                   /\ sent' = Sent(p)
                   /\ IF p.kind = "raise"
                      THEN \E caught \in CatchChoices(p) : WsFail(c, caught)
                      ELSE /\ wpc' = [wpc EXCEPT ![c] =
                                         IF p.kind = "sent" THEN "announce" ELSE "recv"]
                           /\ wit' = [wit EXCEPT ![c] = p.it]
                           /\ wloc' = [wloc EXCEPT ![c] = NoLoc]
                           /\ UNCHANGED <<websocket_clients, alive>>
    /\ got' = None
    /\ UNCHANGED restVars
    /\ client_ip' = None
    /\ UNCHANGED flowVars
    /\ UNCHANGED <<request_futures, future, nextId, nextWs, hpc, hit, resp, watcher>>

\* The endpoint resumes inside process_next_request's loop (line 376).
WsAnnounceStep(c) ==
    /\ wpc[c] = "announce"
    /\ \E o \in LoopStep(wit[c], websocket_clients) :
         IF o.kind = "raise"
         THEN /\ \E caught \in CatchChoices(o) : WsFail(c, caught)
              /\ sent' = <<>>
         ELSE /\ wpc' = [wpc EXCEPT ![c] =
                            IF o.kind = "sent" THEN "announce" ELSE "recv"]
              /\ wit' = [wit EXCEPT ![c] = o.it]
              /\ sent' = IF o.kind = "sent"
                         THEN <<NewRequest(o.to, current_request)>> ELSE <<>>
              /\ UNCHANGED <<wloc, websocket_clients, alive>>
    /\ got' = None
    /\ UNCHANGED restVars
    /\ client_ip' = None
    /\ UNCHANGED flowVars
    /\ UNCHANGED <<pending_requests, current_request, request_futures, future,
                   nextId, nextWs, hpc, hit, resp, watcher, announceLog>>


\* ================== handle_completion: preset path =====================
\* lines 266: the popped preset is returned
PresetReturn(res, cl) == {HOut("done", NoIter, {}, cl, <<>>, res)}

\* lines 249-264: completed_request to every consumer, failures logged
PresetCompleted(r, res, it, cl) ==
    UNION {IF h.pc = "end" THEN PresetReturn(res, h.cl) ELSE {h}
           : h \in BroadcastRun("preset_completed", "completed_request", r,
                                r, it, {}, cl, FALSE)}

\* line 246: broadcast_queue_update("queue_updated", client_ip)
PresetUpdated(r, ip, res, it, failed, cl) ==
    UNION {IF h.pc = "end"
           THEN PresetCompleted(r, res, NewIter(h.cl), h.cl) ELSE {h}
           : h \in BroadcastRun("queue_updated", "queue_updated", None, ip,
                                it, failed, cl, TRUE)}

ApplyHandler(r, h) ==
    /\ hpc' = [hpc EXCEPT ![r] = h.pc]
    /\ hit' = [hit EXCEPT ![r] = h.it]
    /\ websocket_clients' = h.cl
    /\ sent' = h.sent
    /\ resp' = [resp EXCEPT ![r] = h.resp]

\* Lines 229-246: bypass is off and check_and_pop returns the head of the
\* caller's queue.
PresetHandle(r, ip) ==
    /\ r = nextId
    /\ hpc[r] = "idle"
    /\ Strategy(ip) = "preset"
    /\ nextId' = nextId + 1
    /\ client_ip' = ip
    /\ LET out == check_and_pop(keys, queues, ip)
       IN /\ keys' = out.keys
          /\ queues' = out.queues
    /\ tasks' = tasks + 1
    /\ popped' = popped \cup {Head(queues[ip]).id}
    /\ UNCHANGED <<elapsed, nextItem, file, removed, callVars, configVars>>
    /\ LET ret == check_and_pop(keys, queues, ip).ret
           res == [status |-> ret.status_code, body |-> ret.response]
       IN \E h \in PresetUpdated(r, ip, res, NewIter(websocket_clients), {},
                                 websocket_clients) :
             /\ ApplyHandler(r, h)
             /\ hloc' = [hloc EXCEPT ![r] =
                            [path |-> "preset", ip |-> ip, result |-> res,
                             failed |-> h.failed, success |-> FALSE,
                             target_url |-> NoUrl, posted |-> NoUrl]]
    /\ got' = None
    /\ UNCHANGED <<pending_requests, current_request, request_futures, future,
                   watcher, wpc, wit, wloc, nextWs, alive, announceLog,
                   enabled, api, nextApi>>

\* The handler resumes in one of its two loops (lines 246, 260-264).
PresetStep(r) ==
    /\ hpc[r] \in {"queue_updated", "preset_completed"}
    /\ \E h \in (IF hpc[r] = "queue_updated"
                 THEN PresetUpdated(r, hloc[r].ip, hloc[r].result, hit[r],
                                    hloc[r].failed, websocket_clients)
                 ELSE PresetCompleted(r, hloc[r].result, hit[r],
                                      websocket_clients)) :
          /\ ApplyHandler(r, h)
          /\ hloc' = [hloc EXCEPT ![r].failed = h.failed]
    /\ got' = None
    /\ UNCHANGED restVars
    /\ client_ip' = None
    /\ UNCHANGED <<pending_requests, current_request, request_futures, future,
                   nextId, watcher, wpc, wit, wloc, nextWs, alive,
                   announceLog, enabled, queues, api, nextApi>>

\* ================== handle_bypass_request ==============================
\* "https" if config.use_https else "http"
scheme(c) == IF c.use_https THEN "https" ELSE "http"

\* the text an f-string makes of config.target_port
str(port) ==
    CASE port = 0 -> <<"0">>
      [] port = 1 -> <<"1">>
      [] port = 80 -> <<"8", "0">>
      [] port = 443 -> <<"4", "4", "3">>
      [] port = 65535 -> <<"6", "5", "5", "3", "5">>
      [] port = 65536 -> <<"6", "5", "5", "3", "6">>

\* handle_bypass_request, main.py lines 165-171: the URL put in the
\* bypass_request event
target_url(c) ==
    IF \/ c.use_https /\ c.target_port = 443
       \/ ~c.use_https /\ c.target_port = 80
    THEN <<scheme(c), "://">> \o c.target_host \o c.target_uri
    ELSE <<scheme(c), "://">> \o c.target_host \o <<":">>
            \o str(c.target_port) \o c.target_uri

\* BypassHandler._build_url, bypass_handler.py lines 144-163: the URL
\* forward_request posts to
build_url(c) ==
    LET s == IF c.use_https THEN "https" ELSE "http"
    IN IF \/ c.use_https /\ c.target_port = 443
          \/ ~c.use_https /\ c.target_port = 80
       THEN <<s, "://">> \o c.target_host \o c.target_uri
       ELSE <<s, "://">> \o c.target_host \o <<":">> \o str(c.target_port)
               \o c.target_uri

\* forward_request, lines 71-72: config = await get_config() and
\* target_url = self._build_url(config) run, with no suspension, when the
\* bypass_request broadcast has ended; line 83 posts to that URL.
Posted(h) == IF h.pc = "forward" THEN build_url(config) ELSE NoUrl

\* lines 205, 222-225
BypassReturn(res, cl) == {HOut("done", NoIter, {}, cl, <<>>, res)}

\* lines 193-203 and 209-220: broadcast_websocket(bypass_response)
BypassResponse(r, res, success, it, failed, cl) ==
    UNION {IF h.pc = "end" THEN BypassReturn(res, h.cl) ELSE {h}
           : h \in BroadcastRun("bypass_response", "bypass_response", r,
                                ResponseData(res, success), it, failed, cl,
                                TRUE)}

\* lines 175-184: broadcast_websocket(bypass_request), then forward_request
BypassRequest(r, it, failed, cl) ==
    {IF h.pc = "end" THEN HOut("forward", NoIter, {}, h.cl, <<>>, NoResp)
     ELSE h
     : h \in BroadcastRun("bypass_request", "bypass_request", r, r, it,
                          failed, cl, TRUE)}

\* Lines 229-237 and 154-184: bypass is on.
BypassHandle(r, ip) ==
    /\ r = nextId
    /\ hpc[r] = "idle"
    /\ Strategy(ip) = "bypass"
    /\ nextId' = nextId + 1
    /\ client_ip' = ip
    /\ \E h \in BypassRequest(r, NewIter(websocket_clients), {},
                              websocket_clients) :
          /\ ApplyHandler(r, h)
          /\ hloc' = [hloc EXCEPT ![r] =
                         [path |-> "bypass", ip |-> ip, result |-> NoResp,
                          failed |-> h.failed, success |-> FALSE,
                          target_url |-> target_url(config),
                          posted |-> Posted(h)]]
    /\ got' = None
    /\ UNCHANGED restVars
    /\ UNCHANGED <<pending_requests, current_request, request_futures, future,
                   watcher, wpc, wit, wloc, nextWs, alive, announceLog,
                   enabled, queues, api, nextApi>>

\* forward_request returns or raises BypassError (lines 188-190, 207).
Forwarded(r, up) ==
    /\ hpc[r] = "forward"
    /\ LET out == BypassOutcome(forward_request(up))
           res == [status |-> out.status, body |-> out.body]
       IN \E h \in BypassResponse(r, res, out.success,
                                  NewIter(websocket_clients), {},
                                  websocket_clients) :
             /\ ApplyHandler(r, h)
             /\ hloc' = [hloc EXCEPT ![r].result = res,
                                     ![r].success = out.success,
                                     ![r].failed = h.failed]
    /\ got' = None
    /\ UNCHANGED restVars
    /\ client_ip' = None
    /\ UNCHANGED <<pending_requests, current_request, request_futures, future,
                   nextId, watcher, wpc, wit, wloc, nextWs, alive,
                   announceLog, enabled, queues, api, nextApi>>

\* The handler resumes in one of its two broadcasts.
BypassStep(r) ==
    /\ hpc[r] \in {"bypass_request", "bypass_response"}
    /\ \E h \in (IF hpc[r] = "bypass_request"
                 THEN BypassRequest(r, hit[r], hloc[r].failed,
                                    websocket_clients)
                 ELSE BypassResponse(r, hloc[r].result, hloc[r].success,
                                     hit[r], hloc[r].failed,
                                     websocket_clients)) :
          /\ ApplyHandler(r, h)
          /\ hloc' = [hloc EXCEPT ![r].failed = h.failed,
                                  ![r].posted =
                                      IF hpc[r] = "bypass_request"
                                      THEN Posted(h) ELSE @]
    /\ got' = None
    /\ UNCHANGED restVars
    /\ client_ip' = None
    /\ UNCHANGED <<pending_requests, current_request, request_futures, future,
                   nextId, watcher, wpc, wit, wloc, nextWs, alive,
                   announceLog, enabled, queues, api, nextApi>>

\* ================== BypassConfigManager (bypass_config.py) =============
\* re.match(r'^[\w\.\-]+$', host), line 165: one or more characters of the
\* class from the start, then the end of the string; `$` also matches
\* just before a newline that ends the string.
Match(host) ==
    \E n \in 1..Len(host) :
       /\ \A i \in 1..n : host[i] \in WordChars
       /\ \/ n = Len(host)
          \/ n = Len(host) - 1 /\ host[Len(host)] = "\n"

\* _validate_config, lines 149-184: the message of the error it raises, or
\* "" when it returns
validate_config(c) ==
    CASE c.target_host = <<>> -> "target_host cannot be empty"
      [] ~Match(c.target_host) -> "Invalid target_host format"
      [] ~(1 <= c.target_port /\ c.target_port <= 65535) ->
           "target_port must be 1-65535"
      [] ~(c.target_uri # <<>> /\ Head(c.target_uri) = "/") ->
           "target_uri must start with '/'"
      [] ~(1 <= c.timeout /\ c.timeout <= 300) ->
           "timeout must be 1-300 seconds"
      [] OTHER -> ""

\* the keyword arguments of update_config: for each field, whether it is
\* named and with what value
Opt(S, d) ==
    {[named |-> FALSE, v |-> d]} \cup {[named |-> TRUE, v |-> x] : x \in S}

NamedCount(kw) ==
    Cardinality({f \in DOMAIN kw : kw[f].named})

Kwargs ==
    {kw \in [target_host : Opt(Hosts, DefaultHost),
             target_port : Opt(Ports, DefaultPort),
             target_uri : Opt(Uris, DefaultUri),
             api_key : Opt(ApiKeys, NoKey),
             use_https : Opt(BOOLEAN, FALSE),
             timeout : Opt(Timeouts, DefaultTimeout)] :
        NamedCount(kw) <= MaxFields}

\* BypassConfig(**config_dict) with config_dict made of the keywords alone:
\* the fields not named fall back to the defaults of the dataclass
Merge_replace(c, kw, t) ==
    [target_host |-> kw.target_host.v, target_port |-> kw.target_port.v,
     target_uri |-> kw.target_uri.v, api_key |-> kw.api_key.v,
     use_https |-> kw.use_https.v, timeout |-> kw.timeout.v,
     updated_at |-> t]

\* lines 84-88: config_dict.update(kwargs), updated_at set to the clock
Merge(c, kw, t) ==
    [target_host |-> IF kw.target_host.named THEN kw.target_host.v
                     ELSE c.target_host,
     target_port |-> IF kw.target_port.named THEN kw.target_port.v
                     ELSE c.target_port,
     target_uri |-> IF kw.target_uri.named THEN kw.target_uri.v
                    ELSE c.target_uri,
     api_key |-> IF kw.api_key.named THEN kw.api_key.v ELSE c.api_key,
     use_https |-> IF kw.use_https.named THEN kw.use_https.v
                   ELSE c.use_https,
     timeout |-> IF kw.timeout.named THEN kw.timeout.v ELSE c.timeout,
     updated_at |-> t]

\* update_config, lines 82-98: the merged copy is validated and only then
\* assigned
update_config(c, kw, t) ==
    LET new_config == Merge(c, kw, t)
        error == validate_config(new_config)
    IN [raised |-> error # "", error |-> error,
        config |-> IF error = "" THEN new_config ELSE c]

\* the body of the routes' answer (api_routes.py lines 256-264, 284-292)
\* with the key itself added
ConfigResponse_withkey(c, en) ==
    [enabled |-> en, target_host |-> c.target_host,
     target_port |-> c.target_port, target_uri |-> c.target_uri,
     use_https |-> c.use_https, timeout |-> c.timeout,
     api_key_configured |-> c.api_key \notin {NoKey, ""},
     api_key |-> c.api_key]

\* the body of the routes' answer (api_routes.py lines 256-264, 284-292)
ConfigResponse(c, en) ==
    [enabled |-> en, target_host |-> c.target_host,
     target_port |-> c.target_port, target_uri |-> c.target_uri,
     use_https |-> c.use_https, timeout |-> c.timeout,
     api_key_configured |-> c.api_key \notin {NoKey, ""}]

\* PUT /api/bypass/config, lines 270-294: what the route answers
PutReply(c, en, kw, t) ==
    LET u == update_config(c, kw, t)
    IN IF u.raised
       THEN [status |-> 400, body |-> [detail |-> u.error]]
       ELSE [status |-> 200, body |-> ConfigResponse(u.config, en)]

\* ---- BypassHandler._prepare_headers (bypass_handler.py lines 165-193) ----
\* line 187: headers['Authorization'] = f'Bearer {config.api_key}'
SetAuthorization(headers, api_key) ==
    [k \in DOMAIN headers \cup {AuthorizationKey} |->
        IF k = AuthorizationKey THEN Bearer(api_key) ELSE headers[k]]

prepare_headers(original_headers, api_key) ==
    LET kept == {k \in DOMAIN original_headers :
                    k.lower \notin HOP_BY_HOP_HEADERS}
        filtered == [k \in kept |-> original_headers[k]]
        authorized == IF api_key \notin {NoKey, ""}
                      THEN SetAuthorization(filtered, api_key)
                      ELSE filtered
    IN IF "content-type" \notin {k.lower : k \in DOMAIN authorized}
       THEN [k \in DOMAIN authorized \cup {ContentTypeKey} |->
               IF k = ContentTypeKey THEN "application/json"
               ELSE authorized[k]]
       ELSE authorized

\* handler._prepare_headers(original_headers, config)
PrepareHeaders(original_headers, api_key) ==
    /\ prepared' = [called |-> TRUE, original |-> original_headers,
                    api_key |-> api_key,
                    headers |-> prepare_headers(original_headers, api_key)]
    /\ sent' = <<>>
    /\ got' = None
    /\ client_ip' = None
    /\ UNCHANGED <<pending_requests, current_request, request_futures, future,
                   websocket_clients, nextId, hpc, hit, resp, watcher, wpc,
                   wit, wloc, nextWs, alive, announceLog, flowVars, elapsed,
                   storeVars, callVars, config, now, reply, mgr>>

\* ---- BypassConfigManager called directly (bypass_config.py) ----
\* get_config, line 68, and the return of update_config, line 98:
\* BypassConfig(**asdict(self._config)) is a new object with equal fields
get_config(c, en) == [st |-> "copy", config |-> c, enabled |-> en]

\* enable's test of the required fields (lines 111-114): `not value`
\* holds for an empty string and for 0
enable_raises(c) == c.target_host = <<>> \/ c.target_port = 0

\* what a direct call of the manager leaves alone
ManagerFrame ==
    /\ sent' = <<>>
    /\ got' = None
    /\ client_ip' = None
    /\ UNCHANGED <<pending_requests, current_request, request_futures, future,
                   websocket_clients, nextId, hpc, hit, resp, watcher, wpc,
                   wit, wloc, nextWs, alive, announceLog, queues, hloc, api,
                   nextApi, elapsed, storeVars, callVars, now, reply,
                   prepared>>

\* await manager.update_config(**kw)
ManagerUpdate(kw) ==
    /\ mgr.n < ManagerCalls
    /\ LET u == update_config(config, kw, now)
       IN /\ config' = u.config
          /\ mgr' = [n |-> mgr.n + 1, ran |-> "update_config", kw |-> kw,
                     raised |-> u.raised, ret |-> FALSE,
                     obj |-> IF u.raised THEN mgr.obj
                             ELSE get_config(u.config, enabled)]
    /\ UNCHANGED enabled
    /\ ManagerFrame

\* await manager.enable() (lines 109-124)
ManagerEnable ==
    /\ mgr.n < ManagerCalls
    /\ IF enable_raises(config)
       THEN UNCHANGED <<enabled, config>>
       ELSE /\ enabled' = TRUE
            /\ config' = [config EXCEPT !.updated_at = now]
    /\ mgr' = [n |-> mgr.n + 1, ran |-> "enable", kw |-> NoKwargs,
               raised |-> enable_raises(config),
               ret |-> ~enable_raises(config), obj |-> mgr.obj]
    /\ ManagerFrame

\* await manager.disable() (lines 132-138)
ManagerDisable ==
    /\ mgr.n < ManagerCalls
    /\ enabled' = FALSE
    /\ config' = [config EXCEPT !.updated_at = now]
    /\ mgr' = [n |-> mgr.n + 1, ran |-> "disable", kw |-> NoKwargs,
               raised |-> FALSE, ret |-> TRUE, obj |-> mgr.obj]
    /\ ManagerFrame

\* await manager.is_enabled() (lines 146-147)
ManagerIsEnabled ==
    /\ mgr.n < ManagerCalls
    /\ mgr' = [n |-> mgr.n + 1, ran |-> "is_enabled", kw |-> NoKwargs,
               raised |-> FALSE, ret |-> enabled, obj |-> mgr.obj]
    /\ UNCHANGED <<enabled, config>>
    /\ ManagerFrame

\* config = await manager.get_config() (lines 67-68)
ManagerGet ==
    /\ mgr.n < ManagerCalls
    /\ mgr' = [n |-> mgr.n + 1, ran |-> "get_config", kw |-> NoKwargs,
               raised |-> FALSE, ret |-> FALSE,
               obj |-> get_config(config, enabled)]
    /\ UNCHANGED <<enabled, config>>
    /\ ManagerFrame

\* The caller assigns to a field of the object it holds
\* (config1.target_host = "modified.com").  An object that is the stored
\* one changes the stored configuration with it.
MutateReturned ==
    /\ mgr.obj.st # "none"
    /\ mgr.obj.config.target_host # ModifiedHost
    /\ mgr' = [mgr EXCEPT !.obj.config.target_host = ModifiedHost]
    /\ config' = IF mgr.obj.st = "shared"
                 THEN [config EXCEPT !.target_host = ModifiedHost]
                 ELSE config
    /\ UNCHANGED enabled
    /\ ManagerFrame

\* ================== REST routes (api_routes.py) ========================
\* `await websocket_broadcast(type, ip)` and the return of the route
ApiRun(type, ip, it, failed, cl) ==
    {IF h.pc = "end" THEN HOut("done", NoIter, {}, h.cl, <<>>, OkResp)
     ELSE h
     : h \in BroadcastRun("bcast", type, None, ip, it, failed, cl, TRUE)}

ApplyApi(k, type, ip, h) ==
    /\ api' = [api EXCEPT ![k] =
                  [pc |-> IF h.resp = ServerError THEN "failed" ELSE h.pc,
                   it |-> h.it, failed |-> h.failed,
                   type |-> IF h.pc = "bcast" THEN type ELSE "",
                   ip |-> IF h.pc = "bcast" THEN ip ELSE None]]
    /\ websocket_clients' = h.cl
    /\ sent' = h.sent

ApiFrame ==
    /\ got' = None
    /\ UNCHANGED <<elapsed, callVars, now, mgr, prepared>>
    /\ client_ip' = None
    /\ UNCHANGED <<pending_requests, current_request, request_futures, future,
                   nextId, hpc, hit, resp, watcher, wpc, wit, wloc, nextWs,
                   alive, announceLog, hloc>>

\* POST /api/preset-queue/{ip}: queue_manager.add_response, then the
\* queue_updated broadcast.
AddResponse(k, ip, item) ==
    /\ k = nextApi
    /\ api[k].pc = "idle"
    /\ Len(queues[ip]) < MaxPreset
    /\ nextApi' = nextApi + 1
    /\ LET out == add_response(keys, queues, ip, item, nextItem)
       IN /\ keys' = out.keys
          /\ queues' = out.queues
    /\ nextItem' = nextItem + 1
    /\ tasks' = tasks + 1
    /\ UNCHANGED <<popped, removed, config, reply>>
    /\ \E h \in ApiRun("queue_updated", ip, NewIter(websocket_clients), {},
                       websocket_clients) :
          ApplyApi(k, "queue_updated", ip, h)
    /\ ApiFrame
    /\ UNCHANGED <<enabled, file>>

\* POST /api/bypass/enable
EnableBypass(k) ==
    /\ k = nextApi
    /\ api[k].pc = "idle"
    /\ nextApi' = nextApi + 1
    /\ enabled' = TRUE
    /\ config' = [config EXCEPT !.updated_at = now]
    /\ UNCHANGED reply
    /\ \E h \in ApiRun("bypass_config_updated", None,
                       NewIter(websocket_clients), {}, websocket_clients) :
          ApplyApi(k, "bypass_config_updated", None, h)
    /\ ApiFrame
    /\ UNCHANGED <<queues, storeVars>>

\* POST /api/bypass/disable
DisableBypass(k) ==
    /\ k = nextApi
    /\ api[k].pc = "idle"
    /\ nextApi' = nextApi + 1
    /\ enabled' = FALSE
    /\ config' = [config EXCEPT !.updated_at = now]
    /\ UNCHANGED reply
    /\ \E h \in ApiRun("bypass_config_updated", None,
                       NewIter(websocket_clients), {}, websocket_clients) :
          ApplyApi(k, "bypass_config_updated", None, h)
    /\ ApiFrame
    /\ UNCHANGED <<queues, storeVars>>

\* PUT /api/bypass/config (api_routes.py lines 268-294): update_config,
\* then the bypass_config_updated broadcast; ConfigValidationError is
\* answered 400.
UpdateBypassConfig(k, kw) ==
    /\ k = nextApi
    /\ api[k].pc = "idle"
    /\ nextApi' = nextApi + 1
    /\ config' = update_config(config, kw, now).config
    /\ reply' = PutReply(config, enabled, kw, now)
    /\ IF update_config(config, kw, now).raised
       THEN /\ api' = [api EXCEPT ![k].pc = "done"]
            /\ sent' = <<>>
            /\ UNCHANGED websocket_clients
       ELSE \E h \in ApiRun("bypass_config_updated", None,
                            NewIter(websocket_clients), {},
                            websocket_clients) :
               ApplyApi(k, "bypass_config_updated", None, h)
    /\ ApiFrame
    /\ UNCHANGED <<enabled, queues, storeVars>>

\* GET /api/bypass/config (api_routes.py lines 253-265)
GetBypassConfig ==
    /\ reply' = [status |-> 200, body |-> ConfigResponse(config, enabled)]
    /\ sent' = <<>>
    /\ ApiFrame
    /\ UNCHANGED <<enabled, queues, storeVars, config, api, nextApi,
                   websocket_clients>>

\* The event loop's clock advances.
ClockTick ==
    /\ now < MaxNow
    /\ now' = now + 1
    /\ sent' = <<>>
    /\ got' = None
    /\ client_ip' = None
    /\ UNCHANGED <<pending_requests, current_request, request_futures, future,
                   websocket_clients, nextId, hpc, hit, resp, watcher, wpc,
                   wit, wloc, nextWs, alive, announceLog, elapsed, storeVars,
                   callVars, config, reply, mgr, prepared>>
    /\ UNCHANGED flowVars

\* ---- batch add and import (api_routes.py lines 82-146) ----
\* elements of a JSON array: objects, a string, a number
Elements ==
    {[kind |-> "object", v |-> "p1"], [kind |-> "object", v |-> "p2"],
     [kind |-> "string", v |-> "invalid string"],
     [kind |-> "number", v |-> "123"]}

Arrays == UNION {[1..n -> Elements] : n \in 0..MaxBatch}

\* what an uploaded file holds: a JSON array, another JSON value, or text
\* that json.loads rejects
Contents ==
    {[kind |-> "array", arr |-> a] : a \in Arrays}
       \cup {[kind |-> "object", arr |-> <<>>], [kind |-> "text", arr |-> <<>>]}

\* the status codes a batch request names
BatchStatus == {DefaultStatus, 404}

\* PresetValidator.validate_array_elements (preset_validator.py lines
\* 80-84): the indexes, counted from 0, of the elements that are not
\* dicts, in the order of the array
RECURSIVE validate_array_elements(_)
validate_array_elements(arr) ==
    IF arr = <<>> THEN <<>>
    ELSE LET front == validate_array_elements(SubSeq(arr, 1, Len(arr) - 1))
         IN IF arr[Len(arr)].kind # "object"
            THEN Append(front, Len(arr) - 1)
            ELSE front

\* any(e[0] == idx for e in errors)
InErrors(errors, idx) == \E j \in 1..Len(errors) : errors[j] = idx

\* the loop of lines 88-93 and 131-134 from element i on: add_response for
\* every element whose index is not in errors
RECURSIVE AddValid(_, _, _, _, _, _, _, _)
AddValid(ks, qs, ip, arr, errors, status_code, id, i) ==
    IF i > Len(arr)
    THEN [keys |-> ks, queues |-> qs, added |-> 0]
    ELSE IF InErrors(errors, i - 1)
    THEN AddValid(ks, qs, ip, arr, errors, status_code, id, i + 1)
    ELSE LET out == add_response(ks, qs, ip,
                                 [response |-> arr[i].v,
                                  status_code |-> status_code], id)
             rest == AddValid(out.keys, out.queues, ip, arr, errors,
                              status_code, id + 1, i + 1)
         IN [keys |-> rest.keys, queues |-> rest.queues,
             added |-> rest.added + 1]

\* req: BatchAddRequest with responses: List[dict] (lines 28-30, 83):
\* the framework validates the body before the route runs and answers 422
\* when an element of responses is not an object
BatchAddRequest(arr) == \A i \in 1..Len(arr) : arr[i].kind = "object"

UnprocessableStatus == 422
BadRequestStatus == 400

\* what a route leaves: the manager's dict and the answer
RouteOut(ks, qs, added, status, body) ==
    [keys |-> ks, queues |-> qs, added |-> added,
     reply |-> [status |-> status, body |-> body]]

\* batch_add_responses, lines 83-105
batch_add_responses(ks, qs, ip, arr, status_code, id) ==
    IF ~BatchAddRequest(arr)
    THEN RouteOut(ks, qs, 0, UnprocessableStatus, [detail |-> "dict_type"])
    ELSE LET errors == validate_array_elements(arr)
             out == AddValid(ks, qs, ip, arr, errors, status_code, id, 1)
         IN RouteOut(out.keys, out.queues, out.added, DefaultStatus,
                     [success |-> TRUE, added_count |-> out.added,
                      failed_count |-> Len(errors), errors |-> errors,
                      queue_length |-> Len(out.queues[ip])])

\* import_queue, lines 109-146: validate_import_array answers for a file
\* that is not JSON or not an array; add_response is called without a
\* status code
import_queue(ks, qs, ip, content, id) ==
    IF content.kind # "array"
    THEN RouteOut(ks, qs, 0, BadRequestStatus, [detail |-> content.kind])
    ELSE LET errors == validate_array_elements(content.arr)
             out == AddValid(ks, qs, ip, content.arr, errors, DefaultStatus,
                             id, 1)
         IN RouteOut(out.keys, out.queues, out.added, DefaultStatus,
                     [success |-> TRUE, total |-> Len(content.arr),
                      added_count |-> out.added,
                      failed_count |-> Len(errors), errors |-> errors])

\* the route changes the queues, creates one _persist task per element
\* added, and broadcasts queue_updated when it got to the end
ApplyRoute(k, ip, out) ==
    /\ k = nextApi
    /\ api[k].pc = "idle"
    /\ nextApi' = nextApi + 1
    /\ keys' = out.keys
    /\ queues' = out.queues
    /\ nextItem' = nextItem + out.added
    /\ tasks' = tasks + out.added
    /\ reply' = out.reply
    /\ IF out.reply.status # DefaultStatus
       THEN /\ api' = [api EXCEPT ![k].pc = "done"]
            /\ sent' = <<>>
            /\ UNCHANGED websocket_clients
       ELSE \E h \in ApiRun("queue_updated", ip, NewIter(websocket_clients),
                            {}, websocket_clients) :
               ApplyApi(k, "queue_updated", ip, h)
    /\ ApiFrame
    /\ UNCHANGED <<enabled, file, popped, removed, config>>

\* POST /api/preset-queue/{ip}/batch
BatchAdd(k, ip, arr, status_code) ==
    ApplyRoute(k, ip, batch_add_responses(keys, queues, ip, arr, status_code,
                                          nextItem))

\* POST /api/preset-queue/{ip}/import
ImportQueue(k, ip, content) ==
    ApplyRoute(k, ip, import_queue(keys, queues, ip, content, nextItem))

\* The route resumes in broadcast_websocket.
ApiStep(k) ==
    /\ api[k].pc = "bcast"
    /\ \E h \in ApiRun(api[k].type, api[k].ip, api[k].it, api[k].failed,
                       websocket_clients) :
          ApplyApi(k, api[k].type, api[k].ip, h)
    /\ ApiFrame
    /\ UNCHANGED <<enabled, queues, nextApi, storeVars, config, reply>>

Next ==
    \/ \E r \in 1..MaxReq : Submit(r)
    \/ \E r \in Reqs : AnnounceStep(r)
    \/ \E r \in Reqs : Timeout(r)
    \/ \E r \in Reqs : Disconnected(r)
    \/ \E r \in Reqs : HandlerWake(r)
    \/ \E r \in Reqs : CleanupStep(r)
    \/ \E c \in 1..NCli : Connect(c)
    \/ \E c \in Clients : Drop(c)
    \/ \E c \in Clients : RecvDisconnect(c)
    \/ \E c \in Clients, id \in Reqs, msg \in Payloads :
          SendResponse(c, id, msg)
    \/ \E c \in Clients : CompletedStep(c)
    \/ \E c \in Clients : WsAnnounceStep(c)
    \/ \E c \in Clients, m \in OperatorMsgs : MalformedMessage(c, m)

Spec == Init /\ [][Next]_vars

NextPair ==
    \/ \E r \in 1..PairReq : Submit(r)
    \/ \E r \in Reqs : AnnounceStep(r)
    \/ \E r \in Reqs : Timeout(r)
    \/ \E r \in Reqs : Disconnected(r)
    \/ \E r \in Reqs : HandlerWake(r)
    \/ \E r \in Reqs : CleanupStep(r)
    \/ \E c \in 1..PairCli : Connect(c)
    \/ \E c \in Clients : Drop(c)
    \/ \E c \in Clients : RecvDisconnect(c)
    \/ \E c \in Clients, id \in Reqs, msg \in Payloads :
          SendResponse(c, id, msg)
    \/ \E c \in Clients : CompletedStep(c)
    \/ \E c \in Clients : WsAnnounceStep(c)

SpecPair == Init /\ [][NextPair]_vars

\* SpecFlow: the three strategies and the REST routes; no operator answers,
\* so a manual-mode request ends by timeout or disconnect.
NextFlow ==
    \/ \E r \in 1..FlowReq : Submit(r)
    \/ \E r \in 1..FlowReq, ip \in Ips : PresetHandle(r, ip)
    \/ \E r \in 1..FlowReq, ip \in Ips : BypassHandle(r, ip)
    \/ \E r \in Reqs : PresetStep(r)
    \/ \E r \in Reqs : BypassStep(r)
    \/ \E r \in Reqs, up \in Upstream : Forwarded(r, up)
    \/ \E k \in 1..MaxApi, ip \in Ips, item \in Presets :
          AddResponse(k, ip, item)
    \/ \E k \in 1..MaxApi : EnableBypass(k)
    \/ \E k \in 1..MaxApi : DisableBypass(k)
    \/ \E k \in Apis : ApiStep(k)
    \/ \E r \in Reqs : AnnounceStep(r)
    \/ \E r \in Reqs : Timeout(r)
    \/ \E r \in Reqs : Disconnected(r)
    \/ \E r \in Reqs : HandlerWake(r)
    \/ \E r \in Reqs : CleanupStep(r)
    \/ \E c \in 1..FlowCli : Connect(c)
    \/ \E c \in Clients : Drop(c)
    \/ \E c \in Clients : RecvDisconnect(c)

\* Manual submissions under a clock, with no operator answer and no caller
\* disconnect: the wait of each request can only end by its timer.
NextTime ==
    \/ \E r \in 1..TimeReq : Submit(r)
    \/ \E r \in Reqs : AnnounceStep(r)
    \/ Tick
    \/ \E r \in Reqs : Expire(r)
    \/ \E r \in Reqs : HandlerWake(r)
    \/ \E r \in Reqs : CleanupStep(r)
    \/ \E c \in 1..TimeCli : Connect(c)
    \/ \E c \in Clients : Drop(c)
    \/ \E c \in Clients : RecvDisconnect(c)

SpecTime == Init /\ [][NextTime]_vars

\* The queue manager alone, add_response and check_and_pop called by
\* concurrent tasks.
NextQueue ==
    \/ /\ nextCall <= MaxCalls
       /\ \E op \in {"add_response", "check_and_pop"}, ip \in Ips,
             preset \in Presets \cup {NoPreset} :
             Call(nextCall, op, ip, preset, None)
    \/ \E k \in Calls : Run(k)

SpecQueue == Init /\ [][NextQueue]_vars

\* The queue manager and its file, every method called, one call at a time.
NextStore ==
    \/ /\ \A j \in Calls : calls[j].pc # "created"
       /\ nextCall <= StoreCalls
       /\ \E op \in Ops, ip \in Ips \cup {None},
             preset \in Presets \cup {NoPreset}, id \in 1..nextItem \cup {None} :
             Call(nextCall, op, ip, preset, id)
    \/ \E k \in Calls : Run(k)
    \/ Persist
    \/ \E path \in Paths : LoadFresh(path)

SpecStore == Init /\ [][NextStore]_vars

\* The bypass config routes alone.
NextConfig ==
    \/ \E k \in 1..ConfigCalls, kw \in Kwargs : UpdateBypassConfig(k, kw)
    \/ GetBypassConfig
    \/ \E k \in 1..ConfigCalls : EnableBypass(k)
    \/ \E k \in 1..ConfigCalls : DisableBypass(k)
    \/ ClockTick

SpecConfig == Init /\ [][NextConfig]_vars

\* The config manager alone, called by one caller.
NextManager ==
    \/ \E kw \in Kwargs : ManagerUpdate(kw)
    \/ ManagerEnable
    \/ ManagerDisable
    \/ ManagerIsEnabled
    \/ ManagerGet
    \/ MutateReturned
    \/ ClockTick

SpecManager == Init /\ [][NextManager]_vars

\* _prepare_headers alone, called with every dict and key.
NextHeaders ==
    \E original_headers \in OriginalHeaders, api_key \in ApiKeys \cup {NoKey} :
       PrepareHeaders(original_headers, api_key)

SpecHeaders == Init /\ [][NextHeaders]_vars

\* The batch and import routes alone.
NextBatch ==
    \/ \E k \in 1..BatchCalls, ip \in Ips, arr \in Arrays,
          status_code \in BatchStatus : BatchAdd(k, ip, arr, status_code)
    \/ \E k \in 1..BatchCalls, ip \in Ips, content \in Contents :
          ImportQueue(k, ip, content)

SpecBatch == Init /\ [][NextBatch]_vars

SpecFlow == Init /\ [][NextFlow]_vars

\* The bypass path with the configuration routes: requests are forwarded
\* while PUT /api/bypass/config runs.
NextBypass ==
    \/ \E r \in 1..BypassReq, ip \in Ips : BypassHandle(r, ip)
    \/ \E r \in Reqs : BypassStep(r)
    \/ \E r \in Reqs, up \in Upstream : Forwarded(r, up)
    \/ \E k \in 1..BypassCalls : EnableBypass(k)
    \/ \E k \in 1..BypassCalls, kw \in Kwargs : UpdateBypassConfig(k, kw)
    \/ \E k \in Apis : ApiStep(k)
    \/ \E c \in 1..BypassCli : Connect(c)

SpecBypass == Init /\ [][NextBypass]_vars

\* ============================ claims ==================================
Announced(r) == \E i \in 1..Len(announceLog) : announceLog[i] = r

\* C1: at most one request has been announced by process_next_request and
\* has not yet reached a terminal outcome.
C1_SingleFlight ==
    Cardinality({r \in Reqs : Announced(r) /\ future[r].st = "pending"}) <= 1

\* C2: process_next_request announces requests in submission order (ids are
\* issued in submission order): a later submission is never announced before
\* an earlier one, whatever ended the requests in between.
C2_FifoAnnounce ==
    \A i, j \in 1..Len(announceLog) : i < j => announceLog[i] < announceLog[j]

C2_Witness ==
    /\ announceLog = <<1, 2, 3>>
    /\ future[1].st = "cancelled"
    /\ future[2].st = "exception"
    /\ sent # <<>>

\* C3: a request that reached a terminal outcome and whose handler has
\* finished is in none of the queue, the current slot, the resolution table.
C3_TerminalDestroyed ==
    \A r \in Reqs :
        (Done(r) /\ hpc[r] = "done") =>
            /\ ~InQueue(r)
            /\ current_request # r
            /\ r \notin request_futures

\* C4: current_request is never left holding a request that has no pending
\* future, whose handler has finished, and that no resolve in progress is
\* about to clear.
C4_NoOrphanCurrent ==
    current_request # None =>
        \/ future[current_request].st = "pending"
        \/ hpc[current_request] \in {"announce", "wait"}
        \/ \E c \in Clients : wpc[c] = "completed"

\* C5: when the resolve path for request id R reaches its clear, a
\* current_request that holds another request is left as it is.
C5_GuardedClear ==
    [][\A c \in Clients :
          (/\ wpc[c] = "completed"
           /\ wpc'[c] \in {"recv", "announce"}
           /\ current_request # None
           /\ current_request # wloc[c].id)
          => current_request' = current_request]_vars

\* C6: a queued request becomes current only once the request that was
\* current has terminated.
C6_HeadWaitsForCurrent ==
    [][\A r \in Reqs :
          (InQueue(r) /\ current_request' = r)
          => (current_request = None \/ Done(current_request))]_vars

\* C7: every finished submission ended with the outcome of its future:
\* the operator's response, 499 after a disconnect, 504 after the timeout.
C7_ThreeOutcomes ==
    \A r \in Reqs :
        hpc[r] = "done" => (Done(r) /\ resp[r] = OutcomeOf(future[r]))

C9_StaleNoop ==
    [][\A c \in Clients, id \in Reqs, msg \in Payloads :
          (SendResponse(c, id, msg) /\ (id \notin request_futures \/ Done(id)))
          => /\ sent' = <<>>
             /\ wpc'[c] = "recv"
             /\ c \in websocket_clients'
             /\ UNCHANGED <<pending_requests, current_request,
                            request_futures, future, websocket_clients, hpc,
                            hit, resp, watcher, wpc, wit, wloc, alive,
                            announceLog>>]_vars

C9_Witness ==
    \E r \in Reqs, c \in Clients :
        /\ got = r
        /\ future[r].st = "cancelled"
        /\ r \in request_futures
        /\ wpc[c] = "recv" /\ alive[c] /\ c \in websocket_clients

\* C10: send_response completes a request only while it is current: a
\* request still in the pending queue is not resolved, and no request is
\* dequeued after its future is done.
C10_OnlyFromAnnounced ==
    [][\A r \in Reqs :
          /\ (InQueue(r) /\ future[r].st = "pending") => future'[r].st # "result"
          /\ (InQueue(r) /\ current_request' = r) => ~Done(r)]_vars

\* C11: process_next_request.  A step that calls it with current_request
\* set or with the queue empty leaves the slot and the queue as they are and
\* sends no new_request; a step that dequeues removes exactly the head, makes
\* it current, and every new_request of the broadcast it starts, also the
\* ones sent after the loop was suspended, carries the request it dequeued.
QueueAtCall ==
    IF nextId' # nextId THEN Append(pending_requests, nextId)
    ELSE pending_requests

CallsAdvance ==
    \/ nextId' # nextId
    \/ \E r \in Reqs : hpc[r] = "wait" /\ hpc'[r] # "wait"
    \/ \E c \in Clients : wpc[c] = "completed" /\ wpc'[c] # "completed"

C11_Advance ==
    [][/\ (announceLog' # announceLog) =>
             /\ QueueAtCall # <<>>
             /\ announceLog' = Append(announceLog, Head(QueueAtCall))
             /\ pending_requests' = Tail(QueueAtCall)
             /\ current_request' = Head(QueueAtCall)
             /\ Len(sent') <= 1
             /\ \A i \in 1..Len(sent') :
                   /\ sent'[i].type = "new_request"
                   /\ sent'[i].id = Head(QueueAtCall)
       /\ (announceLog' = announceLog) =>
             /\ pending_requests' = QueueAtCall
             /\ current_request' \in {current_request, None}
             /\ CallsAdvance =>
                   \A i \in 1..Len(sent') : sent'[i].type # "new_request"
       /\ \A r \in Reqs :
             (hpc[r] = "announce" /\ hit'[r] # hit[r]) =>
                 \A i \in 1..Len(sent') : sent'[i].id = r]_vars

HandlerMoves(r) ==
    hpc'[r] # hpc[r] \/ hit'[r] # hit[r] \/ hloc'[r] # hloc[r]

C13_PresetPath ==
    [][\A r \in Reqs :
          /\ (r = nextId /\ nextId' # nextId /\ hloc'[r].path = "preset") =>
                LET ip == client_ip'
                    item == Head(queues[ip])
                IN /\ queues[ip] # <<>>
                   /\ queues' = [queues EXCEPT ![ip] = Tail(queues[ip])]
                   /\ hloc'[r].result =
                         [status |-> item.status_code, body |-> item.response]
          /\ (hloc'[r].path = "preset" /\ HandlerMoves(r)) =>
                /\ UNCHANGED <<request_futures, future, pending_requests,
                               current_request, announceLog>>
                /\ \A i \in 1..Len(sent') : sent'[i].type # "new_request"
          /\ (hloc'[r].path = "preset" /\ hpc'[r] = "done") =>
                resp'[r] = hloc'[r].result]_vars

\* C14: status codes of a manual-mode request.  A send_response that
\* resolves the request stores the operator's body with the operator's
\* status code, 200 when the message has none; the handler of a request
\* that entered manual mode ends with that body and status, with 499 when
\* the watcher cancelled it, with 504 when the wait timed out, and with
\* nothing else.
ManualEnds(r) ==
    future'[r] # NoFuture /\ hpc[r] # "done" /\ hpc'[r] = "done"

C14_OutcomeMapping ==
    [][\A r \in Reqs :
          /\ \A c \in Clients, msg \in Payloads :
                (SendResponse(c, r, msg) /\ FutureLive(r)) =>
                    /\ future'[r].st = "result"
                    /\ future'[r].body = msg.response
                    /\ future'[r].status =
                          IF msg.status_code = None THEN DefaultStatus
                          ELSE msg.status_code
          /\ ManualEnds(r) =>
                CASE future'[r].st = "result" ->
                        /\ resp'[r].status = future'[r].status
                        /\ resp'[r].body = future'[r].body
                  [] future'[r].st = "exception" ->
                        resp'[r].status = CancelledStatus
                  [] future'[r].st = "cancelled" ->
                        resp'[r].status = TimeoutStatus
                  [] OTHER -> FALSE]_vars

\* C15: the watcher's cancel and what follows.  The watcher's cancel of a
\* pending request sets the exception and leaves current_request and the
\* queue alone; the handler of the cancelled request then leaves
\* request_futures, clears current_request only if it holds this request
\* and in that case advances to the head of the queue, never touches the
\* slot again, and returns 499; a send_response that names the cancelled
\* request changes nothing.
C15_DisconnectScenario ==
    [][\A r \in Reqs :
          /\ (Disconnected(r) /\ WatcherGuard(r)) =>
                /\ future'[r] = Excepted
                /\ UNCHANGED <<current_request, pending_requests,
                               request_futures>>
          /\ (future[r].st = "exception" /\ hpc[r] = "wait"
                /\ hpc'[r] # "wait") =>
                /\ r \notin request_futures'
                /\ IF current_request = r
                   THEN current_request' =
                           IF pending_requests = <<>> THEN None
                           ELSE Head(pending_requests)
                   ELSE UNCHANGED <<current_request, pending_requests>>
          /\ (future[r].st = "exception" /\ hpc[r] = "cleanup"
                /\ HandlerMoves(r)) =>
                UNCHANGED <<current_request, pending_requests>>
          /\ (future[r].st = "exception" /\ hpc[r] # "done"
                /\ hpc'[r] = "done") =>
                resp'[r] = OutcomeOf(Excepted)
          /\ (future[r].st = "exception" /\ got' = r) =>
                /\ sent' = <<>>
                /\ UNCHANGED <<current_request, pending_requests,
                               request_futures, future, websocket_clients,
                               wpc>>]_vars

\* C16: the timer of a waiting request cancels its future and touches
\* nothing else.  The handler of the timed-out request then leaves
\* request_futures; if the request was current, the slot is cleared and
\* process_next_request dequeues and announces the head of the queue (the
\* slot stays empty when the queue is empty); if it was not current, the
\* slot, the queue and the announcements are left as they are.
C16_TimeoutCleanup ==
    [][\A r \in Reqs :
          /\ (Timeout(r)) =>
                UNCHANGED <<current_request, pending_requests,
                            request_futures, announceLog>>
          /\ (future[r].st = "cancelled" /\ hpc[r] = "wait"
                /\ hpc'[r] # "wait") =>
                /\ r \notin request_futures'
                /\ IF current_request = r
                   THEN IF pending_requests = <<>>
                        THEN /\ current_request' = None
                             /\ UNCHANGED <<pending_requests, announceLog>>
                        ELSE /\ current_request' = Head(pending_requests)
                             /\ pending_requests' = Tail(pending_requests)
                             /\ announceLog' =
                                   Append(announceLog, Head(pending_requests))
                   ELSE UNCHANGED <<current_request, pending_requests,
                                    announceLog>>]_vars

\* request 1 timed out while current with request 2 queued: its handler
\* has handed the slot to request 2 and told the console
C16_Witness ==
    /\ future[1].st = "cancelled"
    /\ hpc[1] \in {"cleanup", "done"}
    /\ 1 \notin request_futures
    /\ current_request = 2
    /\ future[2].st = "pending"
    /\ announceLog = <<1, 2>>
    /\ sent = <<NewRequest(1, 2)>>
    /\ hpc[3] = "wait"

\* C17: a failed delivery aborts nothing.  A handler, a console endpoint or
\* a REST route that is broadcasting is ended by an exception only when the
\* consumer set changed size under its running loop (or, for an endpoint,
\* when it handled a send_response with the slot empty), never because a
\* send to one consumer failed.
SizeChanged(it) == it # NoIter /\ Cardinality(websocket_clients) # it.n

C17_FailureIsolation ==
    [][/\ \A r \in Reqs :
             (resp'[r] = ServerError /\ resp[r] # ServerError) =>
                 SizeChanged(hit[r])
       /\ \A c \in Clients :
             (/\ wpc[c] \in {"recv", "completed", "announce"}
              /\ wpc'[c] \in {"closed", "crashed"}
              /\ ~RecvDisconnect(c)) =>
                 \/ SizeChanged(wit[c])
                 \/ (got' # None /\ current_request = None)
       /\ \A k \in Apis :
             (api'[k].pc = "failed" /\ api[k].pc # "failed") =>
                 SizeChanged(api[k].it)]_vars

\* C18: the completed_request broadcast of a resolve.  The step that
\* resolves request A starts the broadcast of A's completed_request; the
\* broadcast is not abandoned, and when it ends every consumer in the set
\* has been sent the event once; while a consumer has not yet been sent
\* the event, current_request still holds what it held when A was resolved
\* and no new_request for another request is sent.
C18_CompletedBroadcast ==
    [][/\ \A r \in Reqs :
             (future[r].st = "pending" /\ future'[r].st = "result") =>
                 \E c \in Clients :
                    /\ wpc'[c] = "completed"
                    /\ wloc'[c].id = r
                    /\ Len(sent') = 1
                    /\ sent'[1].type = "completed_request"
                    /\ sent'[1].id = r
       /\ \A c \in Clients :
             /\ (wpc[c] = "completed") =>
                   wpc'[c] \in {"completed", "recv", "announce"}
             /\ (wpc[c] = "completed" /\ wpc'[c] \in {"recv", "announce"}) =>
                   wit[c].visited = websocket_clients
             /\ (wpc'[c] = "completed"
                   /\ websocket_clients' \ wit'[c].visited # {}) =>
                   /\ current_request' = wloc'[c].src
                   /\ \A i \in 1..Len(sent') :
                         sent'[i].type = "new_request" =>
                             sent'[i].id = wloc'[c].src]_vars

\* C19: the step in which a console connects adds it to the consumer set
\* and sends it one new_request carrying current_request when the slot is
\* occupied, nothing when it is empty; and a broadcast that was already
\* running when the console connected never delivers to it.
C19_LateJoinerReplay ==
    [][/\ \A c \in Clients :
             (wpc[c] = "idle" /\ wpc'[c] # "idle") =>
                 /\ c \in websocket_clients'
                 /\ UNCHANGED current_request
                 /\ sent' = IF current_request # None
                            THEN <<[to |-> c, type |-> "new_request",
                                    id |-> current_request,
                                    src |-> current_request]>>
                            ELSE <<>>
       /\ \A i \in 1..Len(sent') :
             /\ wpc'[sent'[i].to] # "idle"
             /\ \A r \in Reqs :
                   (hit[r] # NoIter /\ hit'[r] # hit[r]) =>
                       sent'[i].to \in hit[r].start
             /\ \A c \in Clients :
                   (wit[c] # NoIter /\ wit'[c] # wit[c]) =>
                       sent'[i].to \in wit[c].start
             /\ \A k \in Apis :
                   (api[k].it # NoIter /\ api'[k].it # api[k].it) =>
                       sent'[i].to \in api[k].it.start]_vars

\* C20: the consumer set holds only consoles whose endpoint is running: a
\* console is in the set from the step it connects, and once its endpoint
\* has ended, by WebSocketDisconnect or by any other exception, it is not in
\* the set.
C20_ConsumerLifecycle ==
    /\ \A c \in websocket_clients : wpc[c] \in {"recv", "completed", "announce"}
    /\ \A c \in Clients :
          (wpc[c] \in {"recv", "completed", "announce"} /\ alive[c]) =>
              c \in websocket_clients

\* C21: a malformed operator message (no type, or a send_response without
\* id or response) is ignored: the coordinator's state does not change, the
\* connection stays open, the consumer stays in the set and the endpoint
\* goes on receiving, so later well-formed messages are still processed.
C21_MalformedIgnored ==
    [][\A c \in Clients, m \in OperatorMsgs :
         (KeyError(m) /\ MalformedMessage(c, m)) =>
            /\ UNCHANGED <<pending_requests, current_request, request_futures,
                           future>>
            /\ c \in websocket_clients'
            /\ alive'[c]
            /\ wpc'[c] = "recv"]_vars

\* the exceptions the upstream call can raise
Failures == {up \in Upstream : up.kind \notin {"json", "text"}}

\* C22: every failure of the upstream call is raised by forward_request as
\* BypassError, and handle_bypass_request turns it into a 502 answer that
\* carries the error message and into bypass_response events that say
\* success false.
C22_BypassFailure ==
    [][\A r \in Reqs :
          /\ \A up \in Failures :
                Forwarded(r, up) =>
                   /\ forward_request(up).raised
                   /\ hloc'[r].result = [status |-> BadGatewayStatus,
                                         body |-> forward_request(up).body]
                   /\ ~hloc'[r].success
          /\ (/\ hloc'[r].path = "bypass"
              /\ hloc'[r].result # NoResp
              /\ ~hloc'[r].success
              /\ HandlerMoves(r)) =>
                /\ \A i \in DOMAIN sent' :
                      /\ sent'[i].type = "bypass_response"
                      /\ sent'[i].id = r
                      /\ sent'[i].src =
                            ResponseData(hloc'[r].result, FALSE)
                /\ hpc'[r] = "done" => resp'[r] = hloc'[r].result]_vars

\* C26: a bypass request broadcasts two events in order, bypass_request
\* before the upstream call and bypass_response after it, both with the
\* request's id; the response event says success true and the upstream's
\* status when the call succeeded, success false and 502 when it failed;
\* the handler does not end before both broadcasts were made.
C26_BypassEvents ==
    [][\A r \in Reqs :
          /\ \A up \in Upstream \ Failures :
                Forwarded(r, up) =>
                   hloc'[r].success /\ hloc'[r].result.status = up.status
          /\ (hloc'[r].path = "bypass" /\ HandlerMoves(r)) =>
                /\ \A i \in DOMAIN sent' :
                      /\ sent'[i].id = r
                      /\ IF hloc'[r].result = NoResp
                         THEN sent'[i].type = "bypass_request"
                         ELSE /\ sent'[i].type = "bypass_response"
                              /\ sent'[i].src.success = hloc'[r].success
                              /\ sent'[i].src.status_code =
                                    IF hloc'[r].success
                                    THEN hloc'[r].result.status
                                    ELSE BadGatewayStatus
                /\ hpc'[r] = "done" =>
                      /\ hloc'[r].result # NoResp
                      /\ resp'[r] = hloc'[r].result]_vars

\* C23: a manual submission that gets no operator answer and whose caller
\* does not disconnect is timed out once 300 seconds have passed since it
\* started waiting and never earlier: its future is cancelled only by a due
\* timer, a due timer can fire, and the caller is answered the timed-out
\* outcome.
C23_TimeoutBoundary ==
    [][\A r \in Reqs :
          /\ (Waiting(r) /\ future'[r].st # "pending") =>
                TimerDue(r) /\ future'[r] = Cancelled
          /\ (Waiting(r) /\ TimerDue(r)) =>
                /\ ENABLED Expire(r)
                /\ elapsed'[r] = elapsed[r]
          /\ (hpc[r] \in {"wait", "cleanup"} /\ hpc'[r] = "done") =>
                /\ elapsed[r] * TickSeconds >= TimeoutSeconds
                /\ resp'[r] = OutcomeOf(Cancelled)
                /\ resp'[r].status = TimeoutStatus]_vars

\* the sequence q without its i-th element
Without(q, i) == SubSeq(q, 1, i - 1) \o SubSeq(q, i + 1, Len(q))

\* Presets get their ids in the order the add_response calls run, so the
\* oldest preset of a queue is the one with the least id.
Oldest(q, i) == \A j \in 1..Len(q) : q[i].id <= q[j].id

\* C24: the preset queue of an address is first in, first out:
\* check_and_pop returns the response and status of the oldest preset of
\* that address and leaves the others in order, and returns None, changing
\* nothing, when the queue is empty or the address has no queue.
C24_PresetFifo ==
    [][\A k \in Calls :
         (calls[k].op = "check_and_pop" /\ Run(k)) =>
            LET ip == calls[k].ip
                q == queues[ip]
            IN /\ \A other \in Ips \ {ip} : queues'[other] = queues[other]
               /\ IF ip \notin keys \/ q = <<>>
                  THEN retval' = NoneRet /\ queues'[ip] = q
                  ELSE \E i \in 1..Len(q) :
                          /\ Oldest(q, i)
                          /\ retval' = TupleRet(q[i])
                          /\ queues'[ip] = Without(q, i)]_vars

\* a pop has just returned the older of two different presets
C24_Witness ==
    /\ ran = "check_and_pop"
    /\ retval.v = "tuple"
    /\ \E ip \in Ips :
          /\ queues[ip] # <<>>
          /\ Head(queues[ip]).response # retval.response
          /\ \E id \in popped : id < Head(queues[ip]).id

\* the number of presets in all queues
RECURSIVE TotalLen(_, _)
TotalLen(qs, n) == IF n = 0 THEN 0 ELSE Len(qs[n]) + TotalLen(qs, n - 1)

\* C25: concurrent check_and_pop calls consume each preset exactly once: a
\* pop that returns a preset takes one that no pop returned before and that
\* is in no queue afterwards, a pop returns None only when the queue is
\* empty, and the presets left are those added minus those returned.
C25_PopOnce ==
    [][/\ popped' \cap Ids(queues') = {}
       /\ TotalLen(queues', NIp) = (nextItem' - 1) - Cardinality(popped')
       /\ \A k \in Calls :
            (calls[k].op = "check_and_pop" /\ Run(k)) =>
               LET q == queues[calls[k].ip]
               IN IF retval'.v = "tuple"
                  THEN \E i \in 1..Len(q) :
                          /\ q[i].id \notin popped
                          /\ popped' = popped \cup {q[i].id}
                          /\ retval' = TupleRet(q[i])
                          /\ Ids(queues') = Ids(queues) \ {q[i].id}
                  ELSE /\ retval' = NoneRet
                       /\ q = <<>>
                       /\ popped' = popped
                       /\ queues' = queues]_vars

\* one preset was added and a pop has just returned it while three other
\* pops on the same address, created before the last call ran, are pending
C25_Witness ==
    /\ ran = "check_and_pop"
    /\ retval.v = "tuple"
    /\ nextItem = 2
    /\ calls[1].pc = "returned"
    /\ calls[MaxCalls].pc = "returned"
    /\ \E ip \in Ips :
          /\ ip \in keys
          /\ queues[ip] = <<>>
          /\ \A k \in 2..(MaxCalls - 1) :
                /\ calls[k].pc = "created"
                /\ calls[k].op = "check_and_pop"
                /\ calls[k].ip = ip

\* C30: delete_response(ip, id) removes exactly the preset with that id
\* from the address's queue, keeps the order of the others and returns
\* True; it returns False and changes nothing when the address has no queue
\* or no preset with that id; clear_queue and delete_queue return False and
\* change nothing for an address with no queue.
C30_Deletion ==
    [][\A k \in Calls :
         /\ (calls[k].op = "delete_response" /\ Run(k)) =>
               LET ip == calls[k].ip
                   q == queues[ip]
                   at == {i \in 1..Len(q) : q[i].id = calls[k].id}
               IN /\ keys' = keys
                  /\ \A other \in Ips \ {ip} : queues'[other] = queues[other]
                  /\ IF ip \in keys /\ at # {}
                     THEN /\ \E i \in at : queues'[ip] = Without(q, i)
                          /\ retval' = BoolRet(TRUE)
                     ELSE /\ queues'[ip] = q
                          /\ tasks' = tasks
                          /\ retval' = BoolRet(FALSE)
         /\ (/\ calls[k].op \in {"clear_queue", "delete_queue"}
             /\ calls[k].ip \notin keys
             /\ Run(k)) =>
               /\ retval' = BoolRet(FALSE)
               /\ UNCHANGED <<keys, queues, tasks, file>>]_vars

\* a delete has just removed the middle one of three presets
C30_Witness ==
    /\ ran = "delete_response"
    /\ retval = BoolRet(TRUE)
    /\ \E ip \in Ips, id \in removed :
          /\ Len(queues[ip]) = 2
          /\ queues[ip][1].id < id
          /\ id < queues[ip][2].id

WellFormed(host) ==
    host # <<>> /\ \A i \in 1..Len(host) : host[i] \in WordChars

\* the values the validator is to reject
Invalid(c) ==
    \/ ~WellFormed(c.target_host)
    \/ c.target_port < 1 \/ c.target_port > 65535
    \/ c.target_uri = <<>> \/ Head(c.target_uri) # "/"
    \/ c.timeout < 1 \/ c.timeout > 300

\* C27: update_config rejects a merged configuration with an empty or
\* ill-formed target_host, a target_port outside 1..65535, a target_uri not
\* starting with '/' or a timeout outside 1..300, and then leaves every
\* field of the stored configuration, enabled and updated_at included, as it
\* was; any other merged configuration, the boundary values included, is
\* accepted and stored.
C27_RejectInvalid ==
    [][\A k \in Apis, kw \in Kwargs :
         UpdateBypassConfig(k, kw) =>
            LET merged == Merge(config, kw, now)
            IN IF Invalid(merged)
               THEN /\ update_config(config, kw, now).raised
                    /\ reply'.status = 400
                    /\ config' = config
                    /\ enabled' = enabled
               ELSE /\ ~update_config(config, kw, now).raised
                    /\ reply'.status = 200
                    /\ config' = merged]_vars

\* C28: the bypass config routes never disclose the key.  Every answer of
\* GET or PUT /api/bypass/config with a body of the configuration carries
\* exactly the seven fields enabled, target_host, target_port, target_uri,
\* use_https, timeout and the boolean api_key_configured, never api_key;
\* and when such an answer is produced for a configuration with a non-empty
\* key, the same configuration with any other non-empty key would have been
\* answered identically.
C28_KeyNotDisclosed ==
    [][/\ reply'.status = 200 =>
            /\ DOMAIN reply'.body =
                  {"enabled", "target_host", "target_port", "target_uri",
                   "use_https", "timeout", "api_key_configured"}
            /\ reply'.body.api_key_configured \in BOOLEAN
       /\ reply'.status = 400 => DOMAIN reply'.body = {"detail"}
       /\ (GetBypassConfig \/ reply' # reply) /\ reply'.status = 200 =>
            /\ reply'.body.api_key_configured
                  = (config'.api_key \notin {NoKey, ""})
            /\ config'.api_key \notin {NoKey, ""} =>
                  \A key \in ApiKeys \ {""} :
                     ConfigResponse([config' EXCEPT !.api_key = key],
                                    enabled') = reply'.body]_vars

\* a key other than the first one is stored and the route has answered that
\* a key is configured
C28_Witness ==
    /\ config.api_key = "sk-2"
    /\ reply.status = 200
    /\ reply.body.api_key_configured

\* C31: a resolve is not interleaved.  While a console endpoint is between
\* the set_result of a send_response and the end of its clear-and-advance
\* (suspended in the completed_request loop), every step that is not this
\* endpoint's own leaves current_request, pending_requests and
\* request_futures as they are.
C31_ResolveAtomic ==
    [][\A c \in Clients :
          (wpc[c] = "completed" /\ wpc'[c] = wpc[c] /\ wit'[c] = wit[c]) =>
              /\ current_request' = current_request
              /\ pending_requests' = pending_requests
              /\ request_futures' = request_futures]_vars

\* C32: exclusive ownership.  No request is both in pending_requests and in
\* the current slot, none is queued twice, and a submitted request whose
\* future is still pending (its caller is waiting, or its handler is still
\* announcing) is in the queue or in the slot.
C32_ExclusiveOwnership ==
    /\ \A r \in Reqs : ~(InQueue(r) /\ current_request = r)
    /\ \A i, j \in 1..Len(pending_requests) :
          pending_requests[i] = pending_requests[j] => i = j
    /\ \A r \in Reqs :
          (hpc[r] \in {"announce", "wait"} /\ future[r].st = "pending") =>
              (InQueue(r) \/ current_request = r)

\* C33: the completed_request event of a resolve describes the resolved
\* request.  Every completed_request event carries the ip, port and body
\* of the request whose id it carries, and the step that resolves request
\* r sends such an event for r, whatever current_request holds.
C33_CompletedDescribesResolved ==
    [][/\ \A i \in 1..Len(sent') :
             sent'[i].type = "completed_request" =>
                 sent'[i].src = sent'[i].id
       /\ \A r \in Reqs :
             (future[r].st = "pending" /\ future'[r].st = "result") =>
                 /\ Len(sent') = 1
                 /\ sent'[1].type = "completed_request"
                 /\ sent'[1].id = r
                 /\ sent'[1].src = r]_vars

\* C34: the watcher stops with the wait.  Once the handler of request r
\* has left wait_for (by a result, a timeout or the watcher's own cancel),
\* the watcher of r is over: it takes no further step, so it neither looks
\* r up in request_futures nor sets an exception on a future.  A future
\* gets the watcher's exception only from the running watcher of that very
\* request while its handler is still in wait_for.
WaitFinished(r) == hpc[r] \in {"cleanup", "done"} /\ watcher[r] # "none"

C34_WatcherStopped ==
    [][\A r \in Reqs :
          /\ WaitFinished(r) =>
                /\ watcher[r] = "stopped"
                /\ watcher'[r] = "stopped"
                /\ ~Disconnected(r)
          /\ (future'[r].st = "exception" /\ future[r].st # "exception") =>
                /\ hpc[r] = "wait"
                /\ watcher[r] = "running"
                /\ Disconnected(r)]_vars

\* request 1 was resolved and request 2 timed out, both handlers have
\* returned and both watchers are over, while request 3 is still watched
C34_Witness ==
    /\ future[1].st = "result" /\ hpc[1] = "done" /\ watcher[1] = "stopped"
    /\ future[2].st = "cancelled" /\ hpc[2] = "done" /\ watcher[2] = "stopped"
    /\ watcher[3] = "running"

\* C35: request_futures holds an entry for a request exactly while the
\* request is live.  A request whose handler is announcing it or waiting
\* for its outcome has an entry; a request that was never submitted, or
\* whose handler has ended by any path, has none.
C35_TableWhileLive ==
    \A r \in Reqs :
       /\ hpc[r] \in {"announce", "wait"} => r \in request_futures
       /\ hpc[r] \in {"idle", "cleanup", "done"} => r \notin request_futures

\* C36: configuration updates change only what they name.  A successful
\* update_config gives every named field the value passed, leaves every
\* other field and enabled as they were, sets updated_at to the clock and
\* returns an object equal to the stored configuration; enable and disable
\* change only enabled (to true, to false) and updated_at; is_enabled
\* returns the stored flag, so true after enable and false after disable,
\* and changes nothing; get_config returns the stored fields and changes
\* nothing; assigning to a field of the returned object leaves the stored
\* configuration as it was.
ManagerRan(m) == mgr'.n = mgr.n + 1 /\ mgr'.ran = m /\ ~mgr'.raised

C36_UpdateFrame ==
    [][/\ ManagerRan("update_config") =>
             /\ \A f \in Fields :
                   config'[f] = IF mgr'.kw[f].named THEN mgr'.kw[f].v
                                ELSE config[f]
             /\ config'.updated_at = now
             /\ enabled' = enabled
             /\ mgr'.obj.config = config'
             /\ mgr'.obj.enabled = enabled'
       /\ ManagerRan("enable") =>
             /\ enabled'
             /\ \A f \in Fields : config'[f] = config[f]
             /\ config'.updated_at = now
       /\ ManagerRan("disable") =>
             /\ ~enabled'
             /\ \A f \in Fields : config'[f] = config[f]
             /\ config'.updated_at = now
       /\ ManagerRan("is_enabled") =>
             /\ mgr'.ret = enabled
             /\ (mgr.ran = "enable" /\ ~mgr.raised) => mgr'.ret
             /\ mgr.ran = "disable" => ~mgr'.ret
             /\ UNCHANGED <<config, enabled>>
       /\ ManagerRan("get_config") =>
             /\ mgr'.obj.config = config
             /\ mgr'.obj.enabled = enabled
             /\ UNCHANGED <<config, enabled>>
       /\ MutateReturned => UNCHANGED <<config, enabled>>]_vars

\* a second update_config named the host alone: the key and the port set
\* by the first one are still stored
C36_Witness ==
    /\ mgr.n = 2
    /\ mgr.ran = "update_config"
    /\ ~mgr.raised
    /\ mgr.kw.target_host.named
    /\ NamedCount(mgr.kw) = 1
    /\ config.target_host = <<"x">>
    /\ config.api_key = "sk-1"
    /\ config.target_port = 1

\* the elements of an array that are JSON objects, in their order
RECURSIVE ObjectsOf(_)
ObjectsOf(arr) ==
    IF arr = <<>> THEN <<>>
    ELSE IF Head(arr).kind = "object"
    THEN <<Head(arr)>> \o ObjectsOf(Tail(arr))
    ELSE ObjectsOf(Tail(arr))

\* C37: batch add and import add exactly the objects of the array.  A
\* batch add or an import of an array is answered 200; the objects of the
\* array are appended to the address's queue in their order and nothing
\* else changes in the queues; added_count is the number of objects,
\* failed_count the number of other elements, their sum the length of the
\* array, and errors lists the indexes of the other elements.
C37_BatchPartial ==
    [][\A k \in 1..BatchCalls, ip \in Ips, arr \in Arrays :
          (\/ \E status_code \in BatchStatus : BatchAdd(k, ip, arr, status_code)
           \/ ImportQueue(k, ip, [kind |-> "array", arr |-> arr])) =>
             LET objs == ObjectsOf(arr)
                 old == Len(queues[ip])
             IN /\ reply'.status = DefaultStatus
                /\ Len(queues'[ip]) = old + Len(objs)
                /\ SubSeq(queues'[ip], 1, old) = queues[ip]
                /\ \A i \in 1..Len(objs) :
                      queues'[ip][old + i].response = objs[i].v
                /\ \A other \in Ips \ {ip} : queues'[other] = queues[other]
                /\ reply'.body.added_count = Len(objs)
                /\ reply'.body.failed_count = Len(arr) - Len(objs)
                /\ reply'.body.added_count + reply'.body.failed_count
                      = Len(arr)
                /\ Len(reply'.body.errors) = reply'.body.failed_count
                /\ \A i \in 1..Len(arr) :
                      (arr[i].kind # "object") =
                         InErrors(reply'.body.errors, i - 1)]_vars

\* the keys of a dict that spell one header name, in any letter case
KeysNamed(headers, name) == {k \in DOMAIN headers : k.lower = name}

\* C38: the headers prepared for forwarding.  With a key configured the
\* result has exactly one header named Authorization in any letter case,
\* and its value is 'Bearer <key>'; no header of the result is hop-by-hop
\* in any letter case and every other header of the caller is kept; a
\* Content-Type of the caller, in any letter case, is kept as it is and
\* none is added, and when the caller sent none, the one added is the
\* only one.
C38_PreparedHeaders ==
    prepared.called =>
       LET headers == prepared.headers
           original == prepared.original
       IN /\ prepared.api_key \notin {NoKey, ""} =>
                /\ Cardinality(KeysNamed(headers, "authorization")) = 1
                /\ \A k \in KeysNamed(headers, "authorization") :
                      headers[k] = Bearer(prepared.api_key)
          /\ \A k \in DOMAIN headers : k.lower \notin HOP_BY_HOP_HEADERS
          /\ \A k \in DOMAIN original :
                (k.lower \notin HOP_BY_HOP_HEADERS
                   /\ k.lower # "authorization") =>
                    (k \in DOMAIN headers /\ headers[k] = original[k])
          /\ IF KeysNamed(original, "content-type") # {}
             THEN KeysNamed(headers, "content-type")
                     = KeysNamed(original, "content-type")
             ELSE /\ KeysNamed(headers, "content-type") = {ContentTypeKey}
                  /\ headers[ContentTypeKey] = "application/json"

\* C39: a consumer that connects or disconnects during a broadcast does not
\* disturb it.  No handler, console endpoint or REST route is ended by an
\* exception while the consumer set has another size than it had when its
\* running loop began, and a loop that ends has sent the event to every
\* consumer that was in the set when it began and still is.
C39_BroadcastUndisturbed ==
    [][/\ \A r \in Reqs :
             /\ (resp'[r] = ServerError /\ resp[r] # ServerError) =>
                   ~SizeChanged(hit[r])
             /\ (hit[r] # NoIter /\ hit'[r] = NoIter
                   /\ resp'[r] # ServerError) =>
                   (hit[r].start \cap websocket_clients) \subseteq
                       hit[r].visited
       /\ \A c \in Clients :
             /\ (wpc[c] \in {"completed", "announce"}
                   /\ wpc'[c] \in {"closed", "crashed"}) =>
                   ~SizeChanged(wit[c])
             /\ (wpc[c] \in {"completed", "announce"}
                   /\ wpc'[c] \in {"recv", "announce", "completed"}
                   /\ wit'[c].visited \cap wit[c].visited = {}
                   /\ wit'[c] # wit[c]) =>
                   (wit[c].start \cap websocket_clients) \subseteq
                       wit[c].visited
       /\ \A k \in Apis :
             (api'[k].pc = "failed" /\ api[k].pc # "failed") =>
                 ~SizeChanged(api[k].it)]_vars

\* C40: the target_url of a bypass_request event is the URL forward_request
\* posts to for that request, also when update_config runs between the
\* endpoint's read of the configuration and the handler's; and the two URL
\* builders give the same URL for every configuration.
C40_ReportedUrlIsPosted ==
    /\ \A r \in Reqs :
          hloc[r].posted # NoUrl => hloc[r].posted = hloc[r].target_url
    /\ \A host \in Hosts, port \in Ports, uri \in Uris, https \in BOOLEAN :
          LET c == [DefaultConfig EXCEPT !.target_host = host,
                                         !.target_port = port,
                                         !.target_uri = uri,
                                         !.use_https = https]
          IN target_url(c) = build_url(c)

====
